---------------------------- MODULE Spec2Model ----------------------------
(***************************************************************************)
(* Model of the cmf WebSocket fan-out server: the connection registry of   *)
(* WebSocketService, the room membership table of ChatRoomManager, the     *)
(* broadcast router and the Kafka ingress/egress paths.                    *)
(*                                                                         *)
(* Specifications defined over the same variables:                         *)
(*   SpecMgr  - the ChatRoomManager alone, its public methods called in    *)
(*              any order with any arguments, plus the deferred cleanup;   *)
(*   Spec     - the routing core of WebSocketService: transport events,    *)
(*              membership commands, bus events and deferred callbacks;    *)
(*   SpecKick - the kick commands for three connections;                   *)
(*   SpecCmd  - the client commands with their validation and the publish  *)
(*              path through the producer and the chat-message topic;      *)
(*   SpecDispatch - the switch of handleMessage over parsed frames with    *)
(*              every combination of their optional fields;                *)
(*   SpecIngress - the two consumed topics with every kind of payload,     *)
(*              well-formed or not, and the run loops that deliver them;   *)
(*   SpecRooms - the room list: joins, leaves, room-lifecycle events, the  *)
(*              deferred cleanup and get-chat-rooms;                       *)
(*   SpecMgrFair, SpecKickFair - SpecMgr and SpecKick with weak fairness   *)
(*              of the deferred cleanup and of the close event.            *)
(***************************************************************************)
EXTENDS Integers, Sequences, FiniteSets, TLC

VARIABLES
    chatRooms,        \* ChatRoomManager.chatRooms: key -> [participants, info]
    clientChatRooms,  \* ChatRoomManager.clientChatRooms: clientId -> set of keys
    pendingCleanup,   \* queued setImmediate(cleanupEmptyRooms) callbacks, FIFO,
                      \* each tagged with the key of the room whose leave queued it
    clients,          \* WebSocketService.clients: the registered client ids
    conn,             \* per connection: the state of its transport
    inflight,         \* publishes awaiting the producer's acknowledgement
    bus,              \* events published by this server, not yet consumed
    consuming,        \* the topics whose kafkajs run loop is delivering messages
    sent,             \* frames handed to ws.send by the last step, as a
                      \* sequence of fan-outs (each a set of frames)
    lastOp            \* the operation the last step performed and its result

vars == <<chatRooms, clientChatRooms, pendingCleanup, clients, conn,
          inflight, bus, consuming, sent, lastOp>>

mgrVars == <<chatRooms, clientChatRooms, pendingCleanup>>
svcVars == <<clients, conn, inflight, bus, consuming, sent>>

---------------------------------------------------------------------------
(* Bounds and input sets *)

MaxPending == 1
MaxInflight == 1
MaxBus == 1

\* Client ids in the order randomUUID() hands them out: the n-th connection
\* accepted is given the n-th id.
ClientIds == <<"A", "B", "C">>
Conns == {ClientIds[i] : i \in 1..Len(ClientIds)}
TwoConns == {"A", "B"}
RoomIds == {"r1", "r2"}
Names == {"n1", "n2"}

None == "-"

---------------------------------------------------------------------------
(* Finite-map helpers *)

Put(f, k, v) == [x \in (DOMAIN f) \cup {k} |-> IF x = k THEN v ELSE f[x]]
Drop(f, ks) == [x \in (DOMAIN f) \ ks |-> f[x]]
EmptyMap == [x \in {} |-> None]

---------------------------------------------------------------------------
(* ChatRoomManager *)

KeyPrefix == "chat_room_"

GetChatRoomKey(chatRoomId) == KeyPrefix \o chatRoomId

GetChatRoomId(chatRoomKey) ==
    IF Len(chatRoomKey) >= Len(KeyPrefix)
       /\ SubSeq(chatRoomKey, 1, Len(KeyPrefix)) = KeyPrefix
    THEN SubSeq(chatRoomKey, Len(KeyPrefix) + 1, Len(chatRoomKey))
    ELSE chatRoomKey

RoomKeys == {GetChatRoomKey(id) : id \in RoomIds}

Participants(cr, key) == IF key \in DOMAIN cr THEN cr[key].participants ELSE {}

EmptyRoomsMutAll(cr) == DOMAIN cr

\* The keys of the rooms whose participant set is empty.
EmptyRooms(cr) == {k \in DOMAIN cr : cr[k].participants = {}}

CleanupEmptyRooms(cr) == Drop(cr, EmptyRooms(cr))

CreateChatRoomMutOverwrite(cr, chatRoomId, name) ==
    Put(cr, GetChatRoomKey(chatRoomId),
        [participants |-> {}, info |-> [chatRoomId |-> chatRoomId, name |-> name]])

CreateChatRoom(cr, chatRoomId, name) ==
    LET key == GetChatRoomKey(chatRoomId) IN
    IF key \notin DOMAIN cr
    THEN Put(cr, key, [participants |-> {},
                       info |-> [chatRoomId |-> chatRoomId, name |-> name]])
    ELSE cr

JoinChatRoomMutOneIndex(cr, ccr, clientId, chatRoomId) ==
    LET key == GetChatRoomKey(chatRoomId)
        cr1 == IF key \in DOMAIN cr THEN cr ELSE CreateChatRoom(cr, chatRoomId, None)
    IN  IF clientId \in cr1[key].participants
        THEN [chatRooms |-> cr1, clientChatRooms |-> ccr, ret |-> FALSE]
        ELSE [chatRooms |-> Put(cr1, key, [cr1[key] EXCEPT !.participants = @ \cup {clientId}]),
              clientChatRooms |-> ccr,
              ret |-> TRUE]

JoinChatRoomMutAlwaysTrue(cr, ccr, clientId, chatRoomId) ==
    LET key == GetChatRoomKey(chatRoomId)
        cr1 == IF key \in DOMAIN cr THEN cr ELSE CreateChatRoom(cr, chatRoomId, None)
        rooms == IF clientId \in DOMAIN ccr THEN ccr[clientId] ELSE {}
    IN  [chatRooms |-> Put(cr1, key, [cr1[key] EXCEPT !.participants = @ \cup {clientId}]),
         clientChatRooms |-> Put(ccr, clientId, rooms \cup {key}),
         ret |-> TRUE]

JoinChatRoomMutNoRejoin(cr, ccr, clientId, chatRoomId) ==
    LET key == GetChatRoomKey(chatRoomId)
        cr1 == IF key \in DOMAIN cr THEN cr ELSE CreateChatRoom(cr, chatRoomId, None)
        rooms == IF clientId \in DOMAIN ccr THEN ccr[clientId] ELSE {}
    IN  IF clientId \in cr1[key].participants
           \/ (key \in DOMAIN cr /\ cr[key].participants = {})
        THEN [chatRooms |-> cr1, clientChatRooms |-> ccr, ret |-> FALSE]
        ELSE [chatRooms |-> Put(cr1, key, [cr1[key] EXCEPT !.participants = @ \cup {clientId}]),
              clientChatRooms |-> Put(ccr, clientId, rooms \cup {key}),
              ret |-> TRUE]

JoinChatRoomMutReportsRejoin(cr, ccr, clientId, chatRoomId) ==
    LET key == GetChatRoomKey(chatRoomId)
        cr1 == IF key \in DOMAIN cr THEN cr ELSE CreateChatRoom(cr, chatRoomId, None)
        rooms == IF clientId \in DOMAIN ccr THEN ccr[clientId] ELSE {}
    IN  IF clientId \in cr1[key].participants
        THEN [chatRooms |-> cr1, clientChatRooms |-> ccr, ret |-> TRUE]
        ELSE [chatRooms |-> Put(cr1, key, [cr1[key] EXCEPT !.participants = @ \cup {clientId}]),
              clientChatRooms |-> Put(ccr, clientId, rooms \cup {key}),
              ret |-> TRUE]

JoinChatRoom(cr, ccr, clientId, chatRoomId) ==
    LET key == GetChatRoomKey(chatRoomId)
        cr1 == IF key \in DOMAIN cr THEN cr ELSE CreateChatRoom(cr, chatRoomId, None)
        rooms == IF clientId \in DOMAIN ccr THEN ccr[clientId] ELSE {}
    IN  IF clientId \in cr1[key].participants
        THEN [chatRooms |-> cr1, clientChatRooms |-> ccr, ret |-> FALSE]
        ELSE [chatRooms |-> Put(cr1, key, [cr1[key] EXCEPT !.participants = @ \cup {clientId}]),
              clientChatRooms |-> Put(ccr, clientId, rooms \cup {key}),
              ret |-> TRUE]

\* joinChatRoomBatch: the loop body is joinChatRoom's for each listed id; the
\* result depends only on the set of ids listed.
RECURSIVE JoinChatRoomBatch(_, _, _, _)
JoinChatRoomBatch(cr, ccr, clientIds, chatRoomId) ==
    LET key == GetChatRoomKey(chatRoomId)
        cr1 == IF key \in DOMAIN cr THEN cr ELSE CreateChatRoom(cr, chatRoomId, None)
    IN  IF clientIds = {}
        THEN [chatRooms |-> cr1, clientChatRooms |-> ccr, joined |-> {}]
        ELSE LET id == CHOOSE x \in clientIds : TRUE
                 one == JoinChatRoom(cr1, ccr, id, chatRoomId)
                 rest == JoinChatRoomBatch(one.chatRooms, one.clientChatRooms,
                                           clientIds \ {id}, chatRoomId)
             IN  [chatRooms |-> rest.chatRooms,
                  clientChatRooms |-> rest.clientChatRooms,
                  joined |-> rest.joined \cup (IF one.ret THEN {id} ELSE {})]

LeaveChatRoomMutKeepMember(cr, ccr, clientId, chatRoomId) ==
    LET key == GetChatRoomKey(chatRoomId) IN
    IF key \notin DOMAIN cr \/ clientId \notin cr[key].participants
    THEN [chatRooms |-> cr, clientChatRooms |-> ccr, ret |-> FALSE, schedule |-> FALSE]
    ELSE [chatRooms |-> cr, clientChatRooms |-> ccr, ret |-> TRUE, schedule |-> FALSE]

LeaveChatRoomMutNoSchedule(cr, ccr, clientId, chatRoomId) ==
    LET key == GetChatRoomKey(chatRoomId) IN
    IF key \notin DOMAIN cr \/ clientId \notin cr[key].participants
    THEN [chatRooms |-> cr, clientChatRooms |-> ccr, ret |-> FALSE, schedule |-> FALSE]
    ELSE LET remaining == cr[key].participants \ {clientId}
             cr1 == [cr EXCEPT ![key].participants = remaining]
             ccr1 == IF clientId \in DOMAIN ccr
                     THEN IF ccr[clientId] \ {key} = {}
                          THEN Drop(ccr, {clientId})
                          ELSE [ccr EXCEPT ![clientId] = @ \ {key}]
                     ELSE ccr
         IN  [chatRooms |-> cr1, clientChatRooms |-> ccr1, ret |-> TRUE,
              schedule |-> FALSE]

LeaveChatRoomMutKeepsEmptyEntry(cr, ccr, clientId, chatRoomId) ==
    LET key == GetChatRoomKey(chatRoomId) IN
    IF key \notin DOMAIN cr \/ clientId \notin cr[key].participants
    THEN [chatRooms |-> cr, clientChatRooms |-> ccr, ret |-> FALSE, schedule |-> FALSE]
    ELSE LET remaining == cr[key].participants \ {clientId}
             cr1 == [cr EXCEPT ![key].participants = remaining]
             ccr1 == IF clientId \in DOMAIN ccr
                     THEN [ccr EXCEPT ![clientId] = @ \ {key}]
                     ELSE ccr
         IN  [chatRooms |-> cr1, clientChatRooms |-> ccr1, ret |-> TRUE,
              schedule |-> (remaining = {})]

LeaveChatRoom(cr, ccr, clientId, chatRoomId) ==
    LET key == GetChatRoomKey(chatRoomId) IN
    IF key \notin DOMAIN cr \/ clientId \notin cr[key].participants
    THEN [chatRooms |-> cr, clientChatRooms |-> ccr, ret |-> FALSE, schedule |-> FALSE]
    ELSE LET remaining == cr[key].participants \ {clientId}
             cr1 == [cr EXCEPT ![key].participants = remaining]
             ccr1 == IF clientId \in DOMAIN ccr
                     THEN IF ccr[clientId] \ {key} = {}
                          THEN Drop(ccr, {clientId})
                          ELSE [ccr EXCEPT ![clientId] = @ \ {key}]
                     ELSE ccr
         IN  [chatRooms |-> cr1, clientChatRooms |-> ccr1, ret |-> TRUE,
              schedule |-> (remaining = {})]

LeaveAllChatRoomsMutKeepRooms(cr, ccr, clientId) ==
    [chatRooms |-> cr, clientChatRooms |-> Drop(ccr, {clientId})]

LeaveAllChatRoomsMutSweeps(cr, ccr, clientId) ==
    IF clientId \notin DOMAIN ccr \/ ccr[clientId] = {}
    THEN [chatRooms |-> CleanupEmptyRooms(cr), clientChatRooms |-> ccr]
    ELSE LET mine == ccr[clientId] \cap DOMAIN cr
             cr1 == [k \in DOMAIN cr |->
                        IF k \in mine
                        THEN [cr[k] EXCEPT !.participants = @ \ {clientId}]
                        ELSE cr[k]]
             roomsToCleanup == {k \in mine : cr1[k].participants = {}}
         IN  [chatRooms |-> Drop(cr1, roomsToCleanup),
              clientChatRooms |-> Drop(ccr, {clientId})]

LeaveAllChatRooms(cr, ccr, clientId) ==
    IF clientId \notin DOMAIN ccr \/ ccr[clientId] = {}
    THEN [chatRooms |-> cr, clientChatRooms |-> ccr]
    ELSE LET mine == ccr[clientId] \cap DOMAIN cr
             cr1 == [k \in DOMAIN cr |->
                        IF k \in mine
                        THEN [cr[k] EXCEPT !.participants = @ \ {clientId}]
                        ELSE cr[k]]
             roomsToCleanup == {k \in mine : cr1[k].participants = {}}
         IN  [chatRooms |-> Drop(cr1, roomsToCleanup),
              clientChatRooms |-> Drop(ccr, {clientId})]

IsClientInRoomMutRoomExists(cr, clientId, chatRoomId) ==
    GetChatRoomKey(chatRoomId) \in DOMAIN cr

IsClientInRoom(cr, clientId, chatRoomId) ==
    clientId \in Participants(cr, GetChatRoomKey(chatRoomId))

GetChatRoomParticipants(cr, chatRoomId) ==
    Participants(cr, GetChatRoomKey(chatRoomId))

---------------------------------------------------------------------------
(* Steps of the ChatRoomManager taken on its own *)

\* ret is the boolean outcome; val holds any other value returned, as a set.
OpVal(op, c, r, ret, val) == [op |-> op, c |-> c, r |-> r, ret |-> ret, val |-> val]
Op(op, c, r, ret) == OpVal(op, c, r, ret, {})

\* getTotalParticipants: the number of entries of the client index.
GetTotalParticipants(ccr) == Cardinality(DOMAIN ccr)

\* getTotalParticipantMemberships and the loop of getStats: the sizes of
\* the participant sets of the rooms in `keys`, added up.
RECURSIVE SumRoomSizes(_, _)
SumRoomSizes(cr, keys) ==
    IF keys = {}
    THEN 0
    ELSE LET k == CHOOSE x \in keys : TRUE
         IN  Cardinality(cr[k].participants) + SumRoomSizes(cr, keys \ {k})

GetTotalParticipantMemberships(cr) == SumRoomSizes(cr, DOMAIN cr)

\* getStats, without the average (a quotient of two of the fields below).
GetStats(cr, ccr) ==
    [chatRoomCount |-> Cardinality(DOMAIN cr),
     totalClients |-> Cardinality(DOMAIN ccr),
     totalMemberships |-> SumRoomSizes(cr, DOMAIN cr),
     largestRoomSize |->
        IF DOMAIN cr = {}
        THEN 0
        ELSE CHOOSE n \in {Cardinality(cr[k].participants) : k \in DOMAIN cr} :
                \A k \in DOMAIN cr : Cardinality(cr[k].participants) <= n]

MgrCreateChatRoom(r, name) ==
    /\ chatRooms' = CreateChatRoom(chatRooms, r, name)
    /\ lastOp' = OpVal("createChatRoom", None, r, TRUE, {name})
    /\ UNCHANGED <<clientChatRooms, pendingCleanup, svcVars>>

MgrJoinChatRoom(c, r) ==
    LET res == JoinChatRoom(chatRooms, clientChatRooms, c, r) IN
    /\ chatRooms' = res.chatRooms
    /\ clientChatRooms' = res.clientChatRooms
    /\ lastOp' = Op("joinChatRoom", c, r, res.ret)
    /\ UNCHANGED <<pendingCleanup, svcVars>>

MgrJoinChatRoomBatch(cs, r) ==
    LET res == JoinChatRoomBatch(chatRooms, clientChatRooms, cs, r) IN
    /\ chatRooms' = res.chatRooms
    /\ clientChatRooms' = res.clientChatRooms
    /\ lastOp' = OpVal("joinChatRoomBatch", None, r, res.joined # {}, res.joined)
    /\ UNCHANGED <<pendingCleanup, svcVars>>

MgrLeaveChatRoom(c, r) ==
    LET res == LeaveChatRoom(chatRooms, clientChatRooms, c, r) IN
    /\ res.schedule => Len(pendingCleanup) < MaxPending
    /\ chatRooms' = res.chatRooms
    /\ clientChatRooms' = res.clientChatRooms
    /\ pendingCleanup' = IF res.schedule
                         THEN Append(pendingCleanup, GetChatRoomKey(r))
                         ELSE pendingCleanup
    /\ lastOp' = Op("leaveChatRoom", c, r, res.ret)
    /\ UNCHANGED svcVars

MgrLeaveAllChatRooms(c) ==
    LET res == LeaveAllChatRooms(chatRooms, clientChatRooms, c) IN
    /\ chatRooms' = res.chatRooms
    /\ clientChatRooms' = res.clientChatRooms
    /\ lastOp' = Op("leaveAllChatRooms", c, None, TRUE)
    /\ UNCHANGED <<pendingCleanup, svcVars>>

\* The callback queued by setImmediate in leaveChatRoom.
DeferredCleanup ==
    /\ pendingCleanup # <<>>
    /\ chatRooms' = CleanupEmptyRooms(chatRooms)
    /\ pendingCleanup' = Tail(pendingCleanup)
    /\ lastOp' = Op("cleanupEmptyRooms", None, Head(pendingCleanup), TRUE)
    /\ sent' = <<>>
    /\ UNCHANGED <<clientChatRooms, clients, conn, inflight, bus, consuming>>

MgrManualCleanup ==
    /\ chatRooms' = CleanupEmptyRooms(chatRooms)
    /\ lastOp' = LET n == Cardinality(DOMAIN chatRooms) - Cardinality(DOMAIN chatRooms')
                 IN  OpVal("manualCleanup", None, None, n > 0, {n})
    /\ UNCHANGED <<clientChatRooms, pendingCleanup, svcVars>>

---------------------------------------------------------------------------
(* WebSocketService: frames and the send primitives *)

\* A server message: its type and the payload fields the handlers set.
Msg(type, room, who, list, text) ==
    [type |-> type, room |-> room, who |-> who, list |-> list, text |-> text]

\* A message as written to the transport of connection `to`.
Deliver(m, to) ==
    [to |-> to, type |-> m.type, room |-> m.room, who |-> m.who,
     list |-> m.list, text |-> m.text]

\* ws readyState: only a transport in state OPEN accepts a send.
IsOpen(cn, c) == cn[c] = "OPEN"

SendToClientMutIgnoresState(cn, to, m) == {Deliver(m, to)}

SendToClient(cn, to, m) == IF IsOpen(cn, to) THEN {Deliver(m, to)} ELSE {}

\* sendToClient(this.clients.get(id), ...) guarded by `if (client)`.
SendToRegistered(reg, cn, to, m) ==
    IF to \in reg THEN SendToClient(cn, to, m) ELSE {}

\* The position of a client id in the order the ids were handed out, which
\* is the iteration order of the registry.
IdIndex(c) == CHOOSE i \in 1..Len(ClientIds) : ClientIds[i] = c

BroadcastToAllMutAbortOnFailure(reg, cn, m) ==
    UNION {SendToClient(cn, t, m)
           : t \in {u \in reg : \A v \in reg : IdIndex(v) < IdIndex(u) => IsOpen(cn, v)}}

BroadcastToAll(reg, cn, m) == UNION {SendToClient(cn, t, m) : t \in reg}

BroadcastToChatRoomMutNoExclude(cr, reg, cn, chatRoomId, m, excludeClientId) ==
    UNION {SendToRegistered(reg, cn, p, m) : p \in GetChatRoomParticipants(cr, chatRoomId)}

BroadcastToChatRoomMutAllClients(cr, reg, cn, chatRoomId, m, excludeClientId) ==
    UNION {IF excludeClientId # None /\ p = excludeClientId
           THEN {}
           ELSE SendToRegistered(reg, cn, p, m) : p \in reg}

BroadcastToChatRoom(cr, reg, cn, chatRoomId, m, excludeClientId) ==
    UNION {IF excludeClientId # None /\ p = excludeClientId
           THEN {}
           ELSE SendToRegistered(reg, cn, p, m)
           : p \in GetChatRoomParticipants(cr, chatRoomId)}

\* broadcastChatMessage takes the message only: a second argument passed by a
\* caller is not a parameter of the method and is dropped.
BroadcastChatMessage(cr, reg, cn, ev) ==
    LET m == Msg("chat-room-message-received", ev.chatRoomId, ev.from, {}, ev.content) IN
    IF ev.chatRoomId # None
    THEN BroadcastToChatRoom(cr, reg, cn, ev.chatRoomId, m, None)
    ELSE BroadcastToAll(reg, cn, m)

BroadcastClientList(reg, cn) ==
    BroadcastToAll(reg, cn, Msg("client-list", None, None, reg, None))

BroadcastClientConnected(reg, cn, clientId) ==
    BroadcastToAll(reg, cn, Msg("client-connected", None, clientId, {}, None))

BroadcastClientDisconnected(reg, cn, clientId) ==
    BroadcastToAll(reg, cn, Msg("client-disconnected", None, clientId, {}, None))

ErrorMsg(text) == Msg("error", None, None, {}, text)

\* All frames written by the last step, and how many of a type one
\* connection was sent.
Frames(s) == UNION {s[i] : i \in 1..Len(s)}
CountSent(s, to, type) ==
    Cardinality({<<i, f>> \in (1..Len(s)) \X Frames(s) :
                    f \in s[i] /\ f.to = to /\ f.type = type})

---------------------------------------------------------------------------
(* WebSocketService: connection lifecycle *)

\* randomUUID(): an id no connection was given before.
RandomUUID(cn) ==
    LET fresh == {i \in 1..Len(ClientIds) : cn[ClientIds[i]] = "IDLE"} IN
    IF fresh = {} THEN None
    ELSE ClientIds[CHOOSE i \in fresh : \A j \in fresh : i <= j]

ConnectMutListFirst(c) ==
    /\ c = RandomUUID(conn)
    /\ conn' = [conn EXCEPT ![c] = "OPEN"]
    /\ clients' = clients \cup {c}
    /\ sent' = << BroadcastClientList(clients', conn'),
                  SendToClient(conn', c, Msg("welcome", None, c, {}, None)),
                  BroadcastClientConnected(clients', conn', c) >>
    /\ lastOp' = Op("connection", c, None, TRUE)
    /\ UNCHANGED <<mgrVars, inflight, bus, consuming>>

\* wss.on("connection")
Connect(c) ==
    /\ c = RandomUUID(conn)
    /\ conn' = [conn EXCEPT ![c] = "OPEN"]
    /\ clients' = clients \cup {c}
    /\ sent' = << SendToClient(conn', c, Msg("welcome", None, c, {}, None)),
                  BroadcastClientList(clients', conn'),
                  BroadcastClientConnected(clients', conn', c) >>
    /\ lastOp' = Op("connection", c, None, TRUE)
    /\ UNCHANGED <<mgrVars, inflight, bus, consuming>>

\* The transport leaves OPEN before its close event is emitted (the peer's
\* close frame arrived or the socket failed): no more frames are received.
PeerClosing(c) ==
    /\ conn[c] = "OPEN"
    /\ conn' = [conn EXCEPT ![c] = "CLOSING_REMOTE"]
    /\ sent' = <<>>
    /\ lastOp' = Op("peer-closing", c, None, TRUE)
    /\ UNCHANGED <<mgrVars, clients, inflight, bus, consuming>>

DisconnectMutKeepsRooms(c, status, op) ==
    /\ clients' = clients \ {c}
    /\ conn' = [conn EXCEPT ![c] = status]
    /\ sent' = << BroadcastClientDisconnected(clients', conn', c),
                  BroadcastClientList(clients', conn') >>
    /\ lastOp' = Op(op, c, None, TRUE)
    /\ UNCHANGED <<mgrVars, inflight, bus, consuming>>

DisconnectMutCancels(c, status, op) ==
    LET res == LeaveAllChatRooms(chatRooms, clientChatRooms, c) IN
    /\ chatRooms' = res.chatRooms
    /\ clientChatRooms' = res.clientChatRooms
    /\ clients' = clients \ {c}
    /\ conn' = [conn EXCEPT ![c] = status]
    /\ inflight' = {m \in inflight : m.from # c}
    /\ sent' = << BroadcastClientDisconnected(clients', conn', c),
                  BroadcastClientList(clients', conn') >>
    /\ lastOp' = Op(op, c, None, TRUE)
    /\ UNCHANGED <<pendingCleanup, bus, consuming>>

\* The body shared by ws.on("close") and ws.on("error").
Disconnect(c, status, op) ==
    LET res == LeaveAllChatRooms(chatRooms, clientChatRooms, c) IN
    /\ chatRooms' = res.chatRooms
    /\ clientChatRooms' = res.clientChatRooms
    /\ clients' = clients \ {c}
    /\ conn' = [conn EXCEPT ![c] = status]
    /\ sent' = << BroadcastClientDisconnected(clients', conn', c),
                  BroadcastClientList(clients', conn') >>
    /\ lastOp' = Op(op, c, None, TRUE)
    /\ UNCHANGED <<pendingCleanup, inflight, bus, consuming>>

\* ws.on("error"): the close event follows.
ErrorEvent(c) ==
    /\ conn[c] \in {"OPEN", "CLOSING_LOCAL", "CLOSING_REMOTE"}
    /\ Disconnect(c, "ERRORED", "error")

\* ws.on("close")
CloseEvent(c) ==
    /\ conn[c] \in {"OPEN", "CLOSING_LOCAL", "CLOSING_REMOTE", "ERRORED"}
    /\ Disconnect(c, "CLOSED", "close")

\* client.close(): an OPEN transport starts its closing handshake and keeps
\* receiving until the peer answers; otherwise nothing changes.
WsClose(cn, targets) ==
    [c \in Conns |-> IF c \in targets /\ cn[c] = "OPEN" THEN "CLOSING_LOCAL" ELSE cn[c]]

\* A connection whose message events are still emitted.
Receiving(c) == conn[c] \in {"OPEN", "CLOSING_LOCAL"}

---------------------------------------------------------------------------
(* WebSocketService: client commands (the cases of handleMessage) *)

Texts == {"", " ", "hi"}

\* message.trim() === ""
Trim(text) == IF text = " " THEN "" ELSE text

HandleJoinRoomMutRosterBeforeJoin(c, r) ==
    /\ Receiving(c)
    /\ IF r = None
       THEN /\ sent' = << SendToRegistered(clients, conn, c, ErrorMsg("chatRoomId is required")) >>
            /\ lastOp' = Op("join-chat-room", c, r, FALSE)
            /\ UNCHANGED <<chatRooms, clientChatRooms>>
       ELSE LET wasAlreadyInRoom == IsClientInRoom(chatRooms, c, r)
                res == JoinChatRoom(chatRooms, clientChatRooms, c, r)
                participants == GetChatRoomParticipants(chatRooms, r)
                notify == ~wasAlreadyInRoom /\ participants \ {c} # {}
            IN  /\ chatRooms' = res.chatRooms
                /\ clientChatRooms' = res.clientChatRooms
                /\ sent' =
                     IF c \in clients /\ res.ret
                     THEN << SendToClient(conn, c, Msg("chat-room-joined", r, None, {}, None)),
                             SendToClient(conn, c, Msg("chat-room-participants-online", r, None,
                                                       participants, None)) >>
                          \o (IF notify
                              THEN << BroadcastToChatRoom(res.chatRooms, clients, conn, r,
                                        Msg("chat-room-participant-joined", r, c, participants, None),
                                        c) >>
                              ELSE <<>>)
                     ELSE <<>>
                /\ lastOp' = Op("join-chat-room", c, r, res.ret)
    /\ UNCHANGED <<pendingCleanup, clients, conn, inflight, bus, consuming>>

HandleJoinRoom(c, r) ==
    /\ Receiving(c)
    /\ IF r = None
       THEN /\ sent' = << SendToRegistered(clients, conn, c, ErrorMsg("chatRoomId is required")) >>
            /\ lastOp' = Op("join-chat-room", c, r, FALSE)
            /\ UNCHANGED <<chatRooms, clientChatRooms>>
       ELSE LET wasAlreadyInRoom == IsClientInRoom(chatRooms, c, r)
                res == JoinChatRoom(chatRooms, clientChatRooms, c, r)
                participants == GetChatRoomParticipants(res.chatRooms, r)
                notify == ~wasAlreadyInRoom /\ participants \ {c} # {}
            IN  /\ chatRooms' = res.chatRooms
                /\ clientChatRooms' = res.clientChatRooms
                /\ sent' =
                     IF c \in clients /\ res.ret
                     THEN << SendToClient(conn, c, Msg("chat-room-joined", r, None, {}, None)),
                             SendToClient(conn, c, Msg("chat-room-participants-online", r, None,
                                                       participants, None)) >>
                          \o (IF notify
                              THEN << BroadcastToChatRoom(res.chatRooms, clients, conn, r,
                                        Msg("chat-room-participant-joined", r, c, participants, None),
                                        c) >>
                              ELSE <<>>)
                     ELSE <<>>
                /\ lastOp' = Op("join-chat-room", c, r, res.ret)
    /\ UNCHANGED <<pendingCleanup, clients, conn, inflight, bus, consuming>>

HandleLeaveRoomMutAlwaysNotify(c, r) ==
    /\ Receiving(c)
    /\ IF r = None
       THEN /\ sent' = << SendToRegistered(clients, conn, c, ErrorMsg("chatRoomId is required")) >>
            /\ lastOp' = Op("leave-chat-room", c, r, FALSE)
            /\ UNCHANGED <<chatRooms, clientChatRooms, pendingCleanup>>
       ELSE LET wasInRoom == c \in GetChatRoomParticipants(chatRooms, r)
                res == LeaveChatRoom(chatRooms, clientChatRooms, c, r)
                remainingParticipants == GetChatRoomParticipants(res.chatRooms, r)
            IN  /\ res.schedule => Len(pendingCleanup) < MaxPending
                /\ chatRooms' = res.chatRooms
                /\ clientChatRooms' = res.clientChatRooms
                /\ pendingCleanup' = IF res.schedule
                                     THEN Append(pendingCleanup, GetChatRoomKey(r))
                                     ELSE pendingCleanup
                /\ sent' =
                     << SendToRegistered(clients, conn, c, Msg("chat-room-left", r, None, {}, None)) >>
                     \o (IF remainingParticipants # {}
                         THEN << BroadcastToChatRoom(res.chatRooms, clients, conn, r,
                                   Msg("chat-room-participant-left", r, c, remainingParticipants, None),
                                   None) >>
                         ELSE <<>>)
                /\ lastOp' = Op("leave-chat-room", c, r, res.ret)
    /\ UNCHANGED <<clients, conn, inflight, bus, consuming>>

HandleLeaveRoom(c, r) ==
    /\ Receiving(c)
    /\ IF r = None
       THEN /\ sent' = << SendToRegistered(clients, conn, c, ErrorMsg("chatRoomId is required")) >>
            /\ lastOp' = Op("leave-chat-room", c, r, FALSE)
            /\ UNCHANGED <<chatRooms, clientChatRooms, pendingCleanup>>
       ELSE LET wasInRoom == c \in GetChatRoomParticipants(chatRooms, r)
                res == LeaveChatRoom(chatRooms, clientChatRooms, c, r)
                remainingParticipants == GetChatRoomParticipants(res.chatRooms, r)
            IN  /\ res.schedule => Len(pendingCleanup) < MaxPending
                /\ chatRooms' = res.chatRooms
                /\ clientChatRooms' = res.clientChatRooms
                /\ pendingCleanup' = IF res.schedule
                                     THEN Append(pendingCleanup, GetChatRoomKey(r))
                                     ELSE pendingCleanup
                /\ sent' =
                     << SendToRegistered(clients, conn, c, Msg("chat-room-left", r, None, {}, None)) >>
                     \o (IF wasInRoom /\ remainingParticipants # {}
                         THEN << BroadcastToChatRoom(res.chatRooms, clients, conn, r,
                                   Msg("chat-room-participant-left", r, c, remainingParticipants, None),
                                   None) >>
                         ELSE <<>>)
                /\ lastOp' = Op("leave-chat-room", c, r, res.ret)
    /\ UNCHANGED <<clients, conn, inflight, bus, consuming>>

HandleTypingStart(c, r) ==
    /\ Receiving(c)
    /\ sent' =
         IF r = None
         THEN << SendToRegistered(clients, conn, c,
                                  ErrorMsg("chatRoomId is required for typing indicator")) >>
         ELSE IF ~IsClientInRoom(chatRooms, c, r)
         THEN << SendToRegistered(clients, conn, c, ErrorMsg("You must join chat room")) >>
         ELSE << BroadcastToChatRoom(chatRooms, clients, conn, r,
                                     Msg("chat-room-typing", r, c, {}, None), c) >>
    /\ lastOp' = Op("typing-start", c, r, r # None /\ IsClientInRoom(chatRooms, c, r))
    /\ UNCHANGED <<mgrVars, clients, conn, inflight, bus, consuming>>

HandleTypingStop(c, r) ==
    /\ Receiving(c)
    /\ sent' =
         IF r = None
         THEN <<>>
         ELSE IF ~IsClientInRoom(chatRooms, c, r)
         THEN <<>>
         ELSE << BroadcastToChatRoom(chatRooms, clients, conn, r,
                                     Msg("chat-room-typing-stopped", r, c, {}, None), c) >>
    /\ lastOp' = Op("typing-stop", c, r, r # None /\ IsClientInRoom(chatRooms, c, r))
    /\ UNCHANGED <<mgrVars, clients, conn, inflight, bus, consuming>>

GetAllChatRoomsWithStatsMutSkipsEmpty(cr) ==
    {[chatRoomId |-> GetChatRoomId(k),
      participantCount |-> Cardinality(cr[k].participants),
      info |-> cr[k].info] : k \in {x \in DOMAIN cr : cr[x].participants # {}}}

GetAllChatRoomsWithStats(cr) ==
    {[chatRoomId |-> GetChatRoomId(k),
      participantCount |-> Cardinality(cr[k].participants),
      info |-> cr[k].info] : k \in DOMAIN cr}

HandleGetChatRooms(c) ==
    /\ Receiving(c)
    /\ LET chatRoomsInfo ==
             {[chatRoomId |-> room.chatRoomId,
               name |-> room.info.name,
               participantCount |-> room.participantCount,
               participants |-> GetChatRoomParticipants(chatRooms, room.chatRoomId)]
              : room \in GetAllChatRoomsWithStats(chatRooms)}
       IN  sent' = << SendToRegistered(clients, conn, c,
                        Msg("chat-room-list", None, None, chatRoomsInfo, None)) >>
    /\ lastOp' = Op("get-chat-rooms", c, None, TRUE)
    /\ UNCHANGED <<mgrVars, clients, conn, inflight, bus, consuming>>

HandleDirectMessageMutReportsMissing(c, targetId) ==
    /\ Receiving(c)
    /\ sent' = IF targetId \in clients /\ IsOpen(conn, targetId)
               THEN << SendToClient(conn, targetId, Msg("direct", None, c, {}, "hi")) >>
               ELSE << SendToRegistered(clients, conn, c, ErrorMsg("Target not found")) >>
    /\ lastOp' = Op("broadcast-one", c, targetId, TRUE)
    /\ UNCHANGED <<mgrVars, clients, conn, inflight, bus, consuming>>

HandleDirectMessage(c, targetId) ==
    /\ Receiving(c)
    /\ sent' = IF targetId \in clients /\ IsOpen(conn, targetId)
               THEN << SendToClient(conn, targetId, Msg("direct", None, c, {}, "hi")) >>
               ELSE <<>>
    /\ lastOp' = Op("broadcast-one", c, targetId, TRUE)
    /\ UNCHANGED <<mgrVars, clients, conn, inflight, bus, consuming>>

HandleKickClient(c, targetId) ==
    /\ Receiving(c)
    /\ IF targetId \in clients
       THEN /\ conn' = WsClose(conn, {targetId})
            /\ clients' = clients \ {targetId}
            /\ sent' = << SendToClient(conn, targetId, Msg("kicked", None, None, {}, None)),
                          BroadcastClientList(clients', conn') >>
       ELSE /\ sent' = <<>>
            /\ UNCHANGED <<clients, conn>>
    /\ lastOp' = Op("kick-one", c, targetId, targetId \in clients)
    /\ UNCHANGED <<mgrVars, inflight, bus, consuming>>

KickAllRegistry(reg, from) == {}

HandleKickAllClients(c) ==
    /\ Receiving(c)
    /\ conn' = WsClose(conn, clients \ {c})
    /\ clients' = KickAllRegistry(clients, c)
    /\ sent' = << UNION {SendToClient(conn, t, Msg("kicked", None, None, {}, None))
                         : t \in clients \ {c}} >>
    /\ lastOp' = Op("kick-all", c, None, TRUE)
    /\ UNCHANGED <<mgrVars, inflight, bus, consuming>>

HandleUnknownMutSilent(c) ==
    /\ Receiving(c)
    /\ sent' = <<>>
    /\ lastOp' = Op("unknown", c, None, FALSE)
    /\ UNCHANGED <<mgrVars, clients, conn, inflight, bus, consuming>>

\* The default case of handleMessage.
HandleUnknown(c) ==
    /\ Receiving(c)
    /\ sent' = << SendToRegistered(clients, conn, c, ErrorMsg("Unknown command")) >>
    /\ lastOp' = Op("unknown", c, None, FALSE)
    /\ UNCHANGED <<mgrVars, clients, conn, inflight, bus, consuming>>

HandleUnparseableMutCloses(c) ==
    /\ Receiving(c)
    /\ sent' = << SendToClient(conn, c, ErrorMsg("Invalid message format")) >>
    /\ conn' = WsClose(conn, {c})
    /\ clients' = clients \ {c}
    /\ lastOp' = Op("unparseable", c, None, FALSE)
    /\ UNCHANGED <<mgrVars, inflight, bus, consuming>>

\* JSON.parse throws: the catch of the message handler answers on the
\* connection's own transport.
HandleUnparseable(c) ==
    /\ Receiving(c)
    /\ sent' = << SendToClient(conn, c, ErrorMsg("Invalid message format")) >>
    /\ lastOp' = Op("unparseable", c, None, FALSE)
    /\ UNCHANGED <<mgrVars, clients, conn, inflight, bus, consuming>>

---------------------------------------------------------------------------
(* Egress: commands that publish to Kafka; the handler is suspended at      *)
(* `await kafkaService.sendMessage` until the producer answers              *)

\* The value handed to producer.send, with the fields the handlers set.
KafkaMessage(kind, from, chatRoomId, text) ==
    [kind |-> kind, from |-> from, chatRoomId |-> chatRoomId,
     message |-> text, content |-> IF kind = "room" THEN text ELSE None]

\* handleBroadcast up to the await
HandleBroadcast(c, text) ==
    LET m == KafkaMessage("broadcast", c, None, text) IN
    /\ Receiving(c)
    /\ Cardinality(inflight) < MaxInflight
    /\ m \notin inflight
    /\ inflight' = inflight \cup {m}
    /\ sent' = <<>>
    /\ lastOp' = Op("broadcast-all", c, None, TRUE)
    /\ UNCHANGED <<mgrVars, clients, conn, bus, consuming>>

HandleSendChatRoomMessageMutDirect(c, r, text) ==
    LET m == KafkaMessage("room", c, r, text)
        rejected == r = None \/ Trim(text) = "" \/ ~IsClientInRoom(chatRooms, c, r)
    IN
    /\ Receiving(c)
    /\ IF rejected
       THEN /\ sent' = << SendToRegistered(clients, conn, c, ErrorMsg("rejected")) >>
            /\ UNCHANGED inflight
       ELSE /\ Cardinality(inflight) < MaxInflight
            /\ m \notin inflight
            /\ inflight' = inflight \cup {m}
            /\ sent' = << BroadcastChatMessage(chatRooms, clients, conn,
                             [chatRoomId |-> r, from |-> c, content |-> text]) >>
    /\ lastOp' = Op("send-chat-room-message", c, r, ~rejected)
    /\ UNCHANGED <<mgrVars, clients, conn, bus, consuming>>

HandleSendChatRoomMessageMutNoMembershipCheck(c, r, text) ==
    LET m == KafkaMessage("room", c, r, text)
        rejected == r = None \/ Trim(text) = ""
    IN
    /\ Receiving(c)
    /\ IF rejected
       THEN /\ sent' = << SendToRegistered(clients, conn, c, ErrorMsg("rejected")) >>
            /\ UNCHANGED inflight
       ELSE /\ Cardinality(inflight) < MaxInflight
            /\ m \notin inflight
            /\ inflight' = inflight \cup {m}
            /\ sent' = <<>>
    /\ lastOp' = Op("send-chat-room-message", c, r, ~rejected)
    /\ UNCHANGED <<mgrVars, clients, conn, bus, consuming>>

\* handleSendChatRoomMessage up to the await
HandleSendChatRoomMessage(c, r, text) ==
    LET m == KafkaMessage("room", c, r, text)
        rejected == r = None \/ Trim(text) = "" \/ ~IsClientInRoom(chatRooms, c, r)
    IN
    /\ Receiving(c)
    /\ IF r = None
       THEN /\ sent' = << SendToRegistered(clients, conn, c,
                            ErrorMsg("chatRoomId is required for sending chat room messages")) >>
            /\ UNCHANGED inflight
       ELSE IF Trim(text) = ""
       THEN /\ sent' = << SendToRegistered(clients, conn, c,
                            ErrorMsg("Message content is required")) >>
            /\ UNCHANGED inflight
       ELSE IF ~IsClientInRoom(chatRooms, c, r)
       THEN /\ sent' = << SendToRegistered(clients, conn, c,
                            ErrorMsg("You must join chat room")) >>
            /\ UNCHANGED inflight
       ELSE /\ Cardinality(inflight) < MaxInflight
            /\ m \notin inflight
            /\ inflight' = inflight \cup {m}
            /\ sent' = <<>>
    /\ lastOp' = Op("send-chat-room-message", c, r, ~rejected)
    /\ UNCHANGED <<mgrVars, clients, conn, bus, consuming>>

\* producer.send resolves: the message is on the chat-message topic.
PublishOk(m) ==
    /\ m \in inflight
    /\ Cardinality(bus) < MaxBus
    /\ m \notin bus
    /\ inflight' = inflight \ {m}
    /\ bus' = bus \cup {m}
    /\ sent' = <<>>
    /\ lastOp' = Op("publish-ok", m.from, m.chatRoomId, TRUE)
    /\ UNCHANGED <<mgrVars, clients, conn, consuming>>

PublishFailMutRetries(m) ==
    /\ m \in inflight
    /\ inflight' = inflight
    /\ sent' = IF m.kind = "room"
               THEN << SendToRegistered(clients, conn, m.from,
                         ErrorMsg("Failed to send message to chat room")) >>
               ELSE <<>>
    /\ lastOp' = Op("publish-failed", m.from, m.chatRoomId, FALSE)
    /\ UNCHANGED <<mgrVars, clients, conn, bus, consuming>>

\* producer.send rejects: sendMessage rethrows into the handler's catch.
PublishFail(m) ==
    /\ m \in inflight
    /\ inflight' = inflight \ {m}
    /\ sent' = IF m.kind = "room"
               THEN << SendToRegistered(clients, conn, m.from,
                         ErrorMsg("Failed to send message to chat room")) >>
               ELSE <<>>
    /\ lastOp' = Op("publish-failed", m.from, m.chatRoomId, FALSE)
    /\ UNCHANGED <<mgrVars, clients, bus, consuming>>
    /\ UNCHANGED conn

---------------------------------------------------------------------------
(* WebSocketService.handleMessage: the switch on the type of a parsed frame *)

\* A parsed client frame: its type and the optional fields a client may
\* set, a sender id of its own choosing among them.
Frame(type, from, targetId, chatRoomId, message, content) ==
    [type |-> type, from |-> from, targetId |-> targetId,
     chatRoomId |-> chatRoomId, message |-> message, content |-> content]

SendFrames ==
    {Frame("send-chat-room-message", f, None, r, m, t) :
        f \in TwoConns \cup {None}, r \in RoomIds \cup {None},
        m \in {None, "hi"}, t \in {None, "yo"}}

DirectFrames ==
    {Frame("broadcast-one", None, t, None, "hi", None) : t \in Conns \cup {None}}

UnknownFrames ==
    {Frame(ty, f, None, r, None, None) :
        ty \in {"bogus", None}, f \in {None, "A"}, r \in {None, "r1"}}

\* message.message || message.content || ""
FrameText(frame) ==
    IF frame.message # None THEN frame.message
    ELSE IF frame.content # None THEN frame.content
    ELSE ""

HandleMessageMutTrustsFrom(c, frame) ==
    /\ Receiving(c)
    /\ CASE frame.type = "send-chat-room-message" ->
              HandleSendChatRoomMessage(IF frame.from # None THEN frame.from ELSE c,
                                        frame.chatRoomId, FrameText(frame))
         [] frame.type = "broadcast-one" -> HandleDirectMessage(c, frame.targetId)
         [] OTHER -> HandleUnknown(c)

\* The cases of the switch that take fields of the frame, and its default:
\* the sender handed to every handler is the id of the connection the frame
\* arrived on.
HandleMessage(c, frame) ==
    /\ Receiving(c)
    /\ CASE frame.type = "send-chat-room-message" ->
              HandleSendChatRoomMessage(c, frame.chatRoomId, FrameText(frame))
         [] frame.type = "broadcast-one" -> HandleDirectMessage(c, frame.targetId)
         [] OTHER -> HandleUnknown(c)

\* KafkaService.sendMessage: the record handed to producer.send.
ProducerRecord(m) == [key |-> m.from, value |-> m]

---------------------------------------------------------------------------
(* Ingress: KafkaConsumerBaseManager.handleMessage and the two consumers *)

ChatTopic == "messenger-ws.chat-messages"
RoomTopic == "messenger.chat-room"
Topics == {ChatTopic, RoomTopic}

\* The kinds of payload value: "empty" has no bytes, "malformed" is not JSON,
\* "throwing" is the JSON text null (it decodes, and the consumer throws when
\* it reads a field of it), "json" is an object with the fields listed.
\* Payloads produced on the chat-message topic by other services.
ExternalChatPayloads(senders, roomIds) ==
    {[kind |-> k, from |-> None, chatRoomId |-> None, message |-> None, content |-> None]
        : k \in {"empty", "malformed", "throwing"}}
    \cup
    {[kind |-> "json", from |-> f, chatRoomId |-> r, message |-> m, content |-> ct]
        : f \in senders, r \in roomIds \cup {None},
          m \in {None, "hi"}, ct \in {None, "hi"}}

\* Payloads on the room-lifecycle topic.
ChatRoomPayloads(roomIds, names) ==
    {[kind |-> k, chatRoomId |-> None, type |-> None, name |-> None]
        : k \in {"empty", "malformed", "throwing"}}
    \cup
    {[kind |-> "json", chatRoomId |-> r, type |-> t, name |-> n]
        : r \in roomIds \cup {None}, t \in {None, "chat-room.created"},
          n \in names}

ChatMessageConsumerHandleMutNoRoomCheck(cr, reg, cn, ev) ==
    LET messageContent == IF ev.content \in {None, ""} THEN "Not Found..." ELSE ev.content
    IN  << BroadcastChatMessage(cr, reg, cn,
               [chatRoomId |-> ev.chatRoomId, from |-> ev.from,
                content |-> messageContent]) >>

\* ChatMessageConsumer.handleMessage: the frames it causes to be written.
ChatMessageConsumerHandle(cr, reg, cn, ev) ==
    IF ev.chatRoomId = None
    THEN <<>>
    ELSE LET messageContent == IF ev.content \in {None, ""} THEN "Not Found..." ELSE ev.content
         IN  << BroadcastChatMessage(cr, reg, cn,
                    [chatRoomId |-> ev.chatRoomId, from |-> ev.from,
                     content |-> messageContent]) >>

\* KafkaConsumerBaseManager.handleMessage for the chat-message topic.
ConsumerManagerHandleChat(cr, reg, cn, payload) ==
    IF payload.kind \in {"empty", "malformed", "throwing"}
    THEN <<>>
    ELSE ChatMessageConsumerHandle(cr, reg, cn, payload)

\* JSON.parse(messageValue) throws.
DecodeFails(payload) == payload.kind = "malformed"

\* consumer.handleMessage throws; both consumers rethrow from their catch.
HandlerThrows(payload) == payload.kind = "throwing"

ManagerHandleMessageMutRethrows(payload) ==
    IF DecodeFails(payload) \/ HandlerThrows(payload) THEN "rejected" ELSE "resolved"

\* How the promise of KafkaConsumerBaseManager.handleMessage settles: its
\* catch logs the error and does not throw.
ManagerHandleMessage(payload) ==
    IF DecodeFails(payload) \/ HandlerThrows(payload) THEN "resolved" ELSE "resolved"

\* kafkaConsumer.run({eachMessage}): a rejected eachMessage keeps the run
\* loop from delivering the later messages of the topic.
RunLoop(cons, topic, outcome) == IF outcome = "rejected" THEN cons \ {topic} ELSE cons

\* What a consuming step records of the payload it was given.
ChatEventVal(ev) ==
    {<<"kind", ev.kind>>, <<"message", ev.message>>, <<"content", ev.content>>}

\* An event this server published comes back from the topic.
ConsumeChatMessage(ev) ==
    /\ ev \in bus
    /\ ChatTopic \in consuming
    /\ bus' = bus \ {ev}
    /\ sent' = ConsumerManagerHandleChat(chatRooms, clients, conn, ev)
    /\ consuming' = RunLoop(consuming, ChatTopic, ManagerHandleMessage(ev))
    /\ lastOp' = OpVal("chat-message-event", ev.from, ev.chatRoomId, TRUE, ChatEventVal(ev))
    /\ UNCHANGED <<mgrVars, clients, conn, inflight>>

\* An event another service published arrives from the topic.
ConsumeExternalChatMessage(ev) ==
    /\ ChatTopic \in consuming
    /\ sent' = ConsumerManagerHandleChat(chatRooms, clients, conn, ev)
    /\ consuming' = RunLoop(consuming, ChatTopic, ManagerHandleMessage(ev))
    /\ lastOp' = OpVal("chat-message-event", ev.from, ev.chatRoomId, ev.kind = "json",
                       ChatEventVal(ev))
    /\ UNCHANGED <<mgrVars, clients, conn, inflight, bus>>

\* ChatRoomConsumer.handleMessage behind the consumer manager, with
\* WebSocketService.createChatRoom.
ConsumeChatRoomEvent(ev) ==
    LET creates == /\ ev.kind = "json"
                   /\ (ev.chatRoomId # None \/ ev.type = "chat-room.created")
                   /\ ev.chatRoomId # None
    IN
    /\ RoomTopic \in consuming
    /\ consuming' = RunLoop(consuming, RoomTopic, ManagerHandleMessage(ev))
    /\ IF creates
       THEN /\ chatRooms' = CreateChatRoom(chatRooms, ev.chatRoomId, ev.name)
            /\ sent' = << BroadcastToAll(clients, conn,
                            Msg("chat-room.created", ev.chatRoomId, None, {}, ev.name)) >>
       ELSE /\ sent' = <<>>
            /\ UNCHANGED chatRooms
    /\ lastOp' = OpVal("chat-room-event", None, ev.chatRoomId, creates, {<<"kind", ev.kind>>})
    /\ UNCHANGED <<clientChatRooms, pendingCleanup, clients, conn, inflight, bus>>

Init ==
    /\ chatRooms = EmptyMap
    /\ clientChatRooms = EmptyMap
    /\ pendingCleanup = <<>>
    /\ clients = {}
    /\ conn = [c \in Conns |-> "IDLE"]
    /\ inflight = {}
    /\ bus = {}
    /\ consuming = Topics
    /\ sent = <<>>
    /\ lastOp = Op("init", None, None, TRUE)

NextMgr ==
    \/ \E r \in RoomIds, n \in Names \cup {None} : MgrCreateChatRoom(r, n)
    \/ \E c \in Conns, r \in RoomIds : MgrJoinChatRoom(c, r)
    \/ \E cs \in SUBSET Conns, r \in RoomIds : MgrJoinChatRoomBatch(cs, r)
    \/ \E c \in Conns, r \in RoomIds : MgrLeaveChatRoom(c, r)
    \/ \E c \in Conns : MgrLeaveAllChatRooms(c)
    \/ DeferredCleanup
    \/ MgrManualCleanup

SpecMgr == Init /\ [][NextMgr]_vars

\* The manager as above, with every callback queued by setImmediate
\* eventually run: the event loop runs it in its next iteration.
SpecMgrFair ==
    /\ Init
    /\ [][NextMgr]_vars
    /\ WF_vars(DeferredCleanup)

\* The routing core for two connections and two rooms: lifecycle, room
\* membership commands, a room-scoped command with an excluded sender, and
\* the two ingress topics.  The commands left out neither read nor write the
\* registry or the membership table in a way these do not; the events that
\* publishing puts on the topic are among the payloads consumed here.
Next ==
    \/ \E c \in TwoConns : Connect(c)
    \/ \E c \in TwoConns : PeerClosing(c)
    \/ \E c \in TwoConns : ErrorEvent(c)
    \/ \E c \in TwoConns : CloseEvent(c)
    \/ \E c \in TwoConns, r \in RoomIds : HandleJoinRoom(c, r)
    \/ \E c \in TwoConns, r \in RoomIds : HandleLeaveRoom(c, r)
    \/ \E c \in TwoConns, r \in RoomIds : HandleTypingStart(c, r)
    \/ \E c \in TwoConns, t \in TwoConns : HandleKickClient(c, t)
    \/ \E ev \in {e \in ExternalChatPayloads(TwoConns, RoomIds) : e.message = None} :
          ConsumeExternalChatMessage(ev)
    \/ \E ev \in {e \in ChatRoomPayloads(RoomIds, {"n1"}) : e.type # None} :
          ConsumeChatRoomEvent(ev)
    \/ DeferredCleanup

Spec == Init /\ [][Next]_vars

\* Kicking, for three connections and one room.
NextKick ==
    \/ \E c \in Conns : Connect(c)
    \/ \E c \in Conns : CloseEvent(c)
    \/ \E c \in Conns : HandleJoinRoom(c, "r1")
    \/ \E c \in Conns, t \in Conns : HandleKickClient(c, t)
    \/ \E c \in Conns : HandleKickAllClients(c)
    \/ \E ev \in {e \in ExternalChatPayloads({"ext"}, {"r1"}) :
                     e.message = None /\ e.content = "hi" /\ e.chatRoomId # None} :
          ConsumeExternalChatMessage(ev)

SpecKick == Init /\ [][NextKick]_vars

\* The kick commands as above, with the close event of every transport
\* eventually handled: ws emits "close" once the closing handshake that
\* close() started completes or times out.
SpecKickFair ==
    /\ Init
    /\ [][NextKick]_vars
    /\ \A c \in Conns : WF_vars(CloseEvent(c))

\* The client commands with their validation and the publish path, for two
\* connections and one room.
NextCmd ==
    \/ \E c \in TwoConns : Connect(c)
    \/ \E c \in TwoConns : PeerClosing(c)
    \/ \E c \in TwoConns : CloseEvent(c)
    \/ \E c \in TwoConns, r \in {"r1", None} : HandleJoinRoom(c, r)
    \/ \E c \in TwoConns, r \in {"r1", None} : HandleLeaveRoom(c, r)
    \/ \E c \in TwoConns, t \in TwoConns : HandleKickClient(c, t)
    \/ \E c \in TwoConns : HandleUnparseable(c)
    \/ \E c \in TwoConns : HandleBroadcast(c, "hi")
    \/ DeferredCleanup
    \/ \E c \in TwoConns, r \in {"r1", None} : HandleTypingStart(c, r)
    \/ \E c \in TwoConns, r \in {"r1", None} : HandleTypingStop(c, r)
    \/ \E c \in TwoConns, r \in {"r1", None}, text \in Texts :
          HandleSendChatRoomMessage(c, r, text)
    \/ \E m \in inflight : PublishOk(m)
    \/ \E m \in inflight : PublishFail(m)
    \/ \E ev \in bus : ConsumeChatMessage(ev)

SpecCmd == Init /\ [][NextCmd]_vars

\* The dispatch of parsed frames for two connections, one room joined and
\* two named: the frames carry every combination of the optional fields,
\* and the publish they start completes or fails.
NextDispatch ==
    \/ \E c \in TwoConns : Connect(c)
    \/ \E c \in TwoConns : PeerClosing(c)
    \/ \E c \in TwoConns : CloseEvent(c)
    \/ \E c \in TwoConns : HandleJoinRoom(c, "r1")
    \/ \E c \in TwoConns, frame \in SendFrames \cup DirectFrames \cup UnknownFrames :
          HandleMessage(c, frame)
    \/ \E m \in inflight : PublishOk(m)
    \/ \E m \in inflight : PublishFail(m)
    \/ \E ev \in bus : ConsumeChatMessage(ev)

SpecDispatch == Init /\ [][NextDispatch]_vars

\* The two ingress topics with every kind of payload, for two connections
\* and one room.
NextIngress ==
    \/ \E c \in TwoConns : Connect(c)
    \/ \E c \in TwoConns : PeerClosing(c)
    \/ \E c \in TwoConns : CloseEvent(c)
    \/ \E c \in TwoConns : HandleJoinRoom(c, "r1")
    \/ \E ev \in ExternalChatPayloads(TwoConns, {"r1"}) : ConsumeExternalChatMessage(ev)
    \/ \E ev \in ChatRoomPayloads({"r1"}, {"n1"}) : ConsumeChatRoomEvent(ev)

SpecIngress == Init /\ [][NextIngress]_vars

\* Room listing, for two connections and two rooms.
NextRooms ==
    \/ \E c \in TwoConns : Connect(c)
    \/ \E c \in TwoConns : CloseEvent(c)
    \/ \E c \in TwoConns, r \in RoomIds : HandleJoinRoom(c, r)
    \/ \E c \in TwoConns, r \in RoomIds : HandleLeaveRoom(c, r)
    \/ \E c \in TwoConns : HandleGetChatRooms(c)
    \/ \E ev \in {e \in ChatRoomPayloads(RoomIds, {"n1"}) :
                     e.kind = "json" /\ e.type # None /\ e.chatRoomId # None} :
          ConsumeChatRoomEvent(ev)
    \/ DeferredCleanup

SpecRooms == Init /\ [][NextRooms]_vars

---------------------------------------------------------------------------
(* Properties *)

InClientIndex(ccr, c, k) == c \in DOMAIN ccr /\ k \in ccr[c]

AllKeys == (DOMAIN chatRooms) \cup RoomKeys
             \cup UNION {clientChatRooms[c] : c \in DOMAIN clientChatRooms}

Received(s, type) == {f.to : f \in {g \in Frames(s) : g.type = type}}

\* Registered connections whose transport is OPEN.
Live(reg, cn) == {c \in reg : IsOpen(cn, c)}

\* C1: in every reachable state of the membership table a connection is in
\* a room's participant set iff the room's key is in the connection's room
\* set.
C1_IndexesConsistent ==
    \A c \in Conns \cup DOMAIN clientChatRooms, k \in AllKeys :
        (c \in Participants(chatRooms, k)) <=> InClientIndex(clientChatRooms, c, k)

\* A connection left all its rooms while another membership and a queued
\* cleanup remain.
C1_Witness ==
    /\ lastOp.op = "leaveAllChatRooms"
    /\ lastOp.c \notin DOMAIN clientChatRooms
    /\ \E k \in DOMAIN chatRooms : chatRooms[k].participants # {}
    /\ pendingCleanup # <<>>

\* C6: a join of c to R leaves c a member, a leave of c from R leaves c a
\* non-member, and no step other than a join, leave or disconnect of c
\* changes whether c is a member of R; so after any sequence of joins and
\* leaves of c on R, with cleanup steps in between, c is a member iff the
\* last of them was a join.
C6_NetEffect ==
    [][\A c \in Conns, r \in RoomIds :
        LET before == IsClientInRoom(chatRooms, c, r)
            after == IsClientInRoom(chatRooms', c, r)
            mine == lastOp'.c = c /\ lastOp'.r = r
        IN  /\ (lastOp'.op = "joinChatRoom" /\ mine) => after
            /\ (lastOp'.op = "leaveChatRoom" /\ mine) => ~after
            /\ (\/ lastOp'.op \in {"cleanupEmptyRooms", "manualCleanup", "createChatRoom"}
                \/ (lastOp'.op \in {"joinChatRoom", "leaveChatRoom"} /\ ~mine)
                \/ (lastOp'.op = "leaveAllChatRooms" /\ lastOp'.c # c))
               => (after <=> before)
      ]_vars

\* A leave that took effect (a join came before it), with the cleanup it
\* queued still pending.
C6_Witness ==
    /\ lastOp.op = "leaveChatRoom"
    /\ lastOp.ret = TRUE
    /\ ~IsClientInRoom(chatRooms, lastOp.c, lastOp.r)
    /\ pendingCleanup # <<>>

\* C7: joinChatRoom returns true iff the client was not a member before,
\* leaveChatRoom returns true iff it was; a call returning false changes
\* neither index nor the set of rooms.
C7_ReturnValues ==
    [][/\ lastOp'.op = "joinChatRoom" =>
            /\ lastOp'.ret <=> ~IsClientInRoom(chatRooms, lastOp'.c, lastOp'.r)
            /\ ~lastOp'.ret => UNCHANGED mgrVars
       /\ lastOp'.op = "leaveChatRoom" =>
            /\ lastOp'.ret <=> IsClientInRoom(chatRooms, lastOp'.c, lastOp'.r)
            /\ ~lastOp'.ret => UNCHANGED mgrVars
      ]_vars

\* A join by a client that already is a member returned false.
C7_Witness ==
    /\ lastOp.op = "joinChatRoom"
    /\ lastOp.ret = FALSE
    /\ IsClientInRoom(chatRooms, lastOp.c, lastOp.r)

\* C8: a room removed by a step has no member when it is removed (the
\* disconnect path removes only rooms whose sole member was the leaver),
\* and the deferred cleanup keeps every room that has a member when it
\* runs, with its members.
C8_CleanupRechecks ==
    [][/\ \A k \in (DOMAIN chatRooms) \ (DOMAIN chatRooms') :
            IF lastOp'.op = "leaveAllChatRooms"
            THEN chatRooms[k].participants \subseteq {lastOp'.c}
            ELSE chatRooms[k].participants = {}
       /\ lastOp'.op = "cleanupEmptyRooms" =>
            \A k \in DOMAIN chatRooms :
                chatRooms[k].participants # {} =>
                    k \in DOMAIN chatRooms' /\ chatRooms'[k] = chatRooms[k]
      ]_vars

\* The cleanup queued by the leave that emptied a room ran after a client
\* had joined that room again: the room and the membership are still there.
C8_Witness ==
    /\ lastOp.op = "cleanupEmptyRooms"
    /\ lastOp.r \in DOMAIN chatRooms
    /\ chatRooms[lastOp.r].participants # {}

\* The chat-message topic delivered an event for room r.
IsChatEvent(op, r) == op.op = "chat-message-event" /\ op.r = r

\* C2 as claimed: a room-scoped broadcast without an excluded id is sent to
\* exactly the connections in the room's participant set at dispatch.
C2_AsClaimed ==
    [][\A r \in RoomIds :
        /\ IsChatEvent(lastOp', r) =>
              Received(sent', "chat-room-message-received")
                 = GetChatRoomParticipants(chatRooms, r)
        /\ (lastOp'.op = "leave-chat-room" /\ lastOp'.r = r /\ lastOp'.ret) =>
              Received(sent', "chat-room-participant-left")
                 = GetChatRoomParticipants(chatRooms', r)
      ]_vars

\* C2: a room-scoped broadcast without an excluded id is sent exactly once
\* to every connection that is in the room's participant set at dispatch,
\* is registered and has an OPEN transport, and to no other connection.
C2_RoomBroadcastTargets ==
    [][\A r \in RoomIds, c \in Conns :
        /\ IsChatEvent(lastOp', r) =>
              CountSent(sent', c, "chat-room-message-received")
                 = IF c \in GetChatRoomParticipants(chatRooms, r) \cap Live(clients, conn)
                   THEN 1 ELSE 0
        /\ (lastOp'.op = "leave-chat-room" /\ lastOp'.r = r /\ lastOp'.ret) =>
              CountSent(sent', c, "chat-room-participant-left")
                 = IF c \in GetChatRoomParticipants(chatRooms', r) \cap Live(clients, conn)
                   THEN 1 ELSE 0
      ]_vars

\* An event for a room was delivered to one member and skipped for another
\* member that is not registered with an OPEN transport.
C2_Witness ==
    /\ lastOp.op = "chat-message-event"
    /\ \E p, q \in GetChatRoomParticipants(chatRooms, lastOp.r) :
          /\ CountSent(sent, p, "chat-room-message-received") = 1
          /\ q \notin Live(clients, conn)
          /\ CountSent(sent, q, "chat-room-message-received") = 0

\* C3 as claimed: when the chat-message topic delivers an event for room r
\* from sender a, and a and b are both live members of r, b is sent one
\* chat-room-message-received frame and a is sent none.
C3_SenderExcluded ==
    [][\A r \in RoomIds, a \in Conns, b \in Conns :
        (/\ IsChatEvent(lastOp', r)
         /\ lastOp'.c = a
         /\ a # b
         /\ {a, b} \subseteq GetChatRoomParticipants(chatRooms, r) \cap Live(clients, conn))
        => /\ CountSent(sent', b, "chat-room-message-received") = 1
           /\ CountSent(sent', a, "chat-room-message-received") = 0
      ]_vars

\* A room-scoped broadcast for room r with excluded id x was dispatched:
\* the typing indicator of member x, or the participant-joined notice of
\* the registered joiner x.
IsTypingBy(op, x, r) == op.op = "typing-start" /\ op.c = x /\ op.r = r /\ op.ret
IsJoinBy(op, x, r) == op.op = "join-chat-room" /\ op.c = x /\ op.r = r /\ op.ret

\* C4 as claimed: the excluded connection is sent no copy and every other
\* member of the room exactly one.
C4_AsClaimed ==
    [][\A r \in RoomIds, x \in Conns :
        /\ IsTypingBy(lastOp', x, r) =>
              /\ CountSent(sent', x, "chat-room-typing") = 0
              /\ \A p \in GetChatRoomParticipants(chatRooms, r) \ {x} :
                    CountSent(sent', p, "chat-room-typing") = 1
        /\ (IsJoinBy(lastOp', x, r) /\ x \in clients) =>
              /\ CountSent(sent', x, "chat-room-participant-joined") = 0
              /\ \A p \in GetChatRoomParticipants(chatRooms', r) \ {x} :
                    CountSent(sent', p, "chat-room-participant-joined") = 1
      ]_vars

\* C4: the excluded connection is sent no copy; every other member of the
\* room that is registered with an OPEN transport is sent exactly one, and
\* nobody else is sent any.
C4_ExcludedSender ==
    [][\A r \in RoomIds, x \in Conns, p \in Conns :
        /\ IsTypingBy(lastOp', x, r) =>
              CountSent(sent', p, "chat-room-typing")
                 = IF p \in (GetChatRoomParticipants(chatRooms, r) \ {x}) \cap Live(clients, conn)
                   THEN 1 ELSE 0
        /\ (IsJoinBy(lastOp', x, r) /\ x \in clients) =>
              CountSent(sent', p, "chat-room-participant-joined")
                 = IF p \in (GetChatRoomParticipants(chatRooms', r) \ {x}) \cap Live(clients, conn)
                   THEN 1 ELSE 0
      ]_vars

\* A member's typing indicator reached another member and not the sender.
C4_Witness ==
    /\ lastOp.op = "typing-start"
    /\ lastOp.ret
    /\ lastOp.c \in Live(clients, conn)
    /\ CountSent(sent, lastOp.c, "chat-room-typing") = 0
    /\ \E p \in GetChatRoomParticipants(chatRooms, lastOp.r) \ {lastOp.c} :
          CountSent(sent, p, "chat-room-typing") = 1

\* The close or error handler of the connection has run.
Disconnected(c) == conn[c] \in {"ERRORED", "CLOSED"}

\* C5: once a connection's close or error event has been handled, it is in
\* neither the registry nor any room's participant set nor the client
\* index, and no step sends it a frame.
C5_DisconnectedGone ==
    \A c \in Conns :
        Disconnected(c) =>
            /\ c \notin clients
            /\ \A k \in DOMAIN chatRooms : c \notin chatRooms[k].participants
            /\ c \notin DOMAIN clientChatRooms
            /\ \A f \in Frames(sent) : f.to # c

\* After one connection was closed, an event for a room was delivered to a
\* remaining member.
C5_Witness ==
    /\ \E c \in Conns : conn[c] = "CLOSED"
    /\ lastOp.op = "chat-message-event"
    /\ GetChatRoomParticipants(chatRooms, lastOp.r) # {}
    /\ Received(sent, "chat-room-message-received")
          = GetChatRoomParticipants(chatRooms, lastOp.r)

\* C9 as claimed: on kick-all every other registered connection is sent a
\* kicked frame and closed, and the issuer's registry entry is kept.
C9_KickAllKeepsIssuer ==
    [][lastOp'.op = "kick-all" =>
        /\ \A t \in clients \ {lastOp'.c} :
              /\ IsOpen(conn, t) => CountSent(sent', t, "kicked") = 1
              /\ ~IsOpen(conn', t)
        /\ lastOp'.c \in clients => lastOp'.c \in clients'
      ]_vars

IsMembershipCmd(op, c, r) ==
    /\ op.op \in {"send-chat-room-message", "typing-start", "typing-stop"}
    /\ op.c = c
    /\ op.r = r

CommandOps ==
    {"broadcast-all", "broadcast-one", "kick-one", "kick-all", "join-chat-room",
     "leave-chat-room", "get-chat-rooms", "send-chat-room-message",
     "typing-start", "typing-stop", "unknown", "unparseable"}

\* The step wrote to the registry, the membership table, the bus, the
\* producer or a connection.
HasEffect ==
    \/ Frames(sent') # {}
    \/ ~UNCHANGED <<chatRooms, clientChatRooms, pendingCleanup, clients, conn,
                    inflight, bus>>

\* The publishes of connection c that its handler is still awaiting.
Awaited(c) == {m \in inflight : m.from = c}

\* C11 as claimed: the handling of a frame from connection c takes effect
\* only when no earlier frame of c is still being handled, that is when no
\* publish awaited on behalf of c is outstanding.
C11_FramesInOrder ==
    [][(lastOp'.op \in CommandOps /\ HasEffect) => Awaited(lastOp'.c) = {}]_vars

ChatFrames(s) == {f \in Frames(s) : f.type = "chat-room-message-received"}

\* C12: the step that handles send-chat-room-message writes no
\* chat-room-message-received frame and puts nothing on the topic itself;
\* every step that writes such a frame consumes an event from the topic and
\* the frames carry that event's room and sender; a failed publish puts
\* nothing on the topic and writes no such frame.
C12_DeliveredOnlyFromBus ==
    [][/\ ChatFrames(sent') # {} =>
            /\ lastOp'.op = "chat-message-event"
            /\ \E ev \in bus :
                  /\ bus' = bus \ {ev}
                  /\ \A f \in ChatFrames(sent') :
                        f.room = ev.chatRoomId /\ f.who = ev.from
       /\ lastOp'.op \in {"send-chat-room-message", "publish-failed"} =>
            /\ ChatFrames(sent') = {}
            /\ bus' = bus
      ]_vars

\* An event consumed from the topic was delivered to a member of its room
\* other than the sender.
C12_Witness ==
    /\ lastOp.op = "chat-message-event"
    /\ \E f \in ChatFrames(sent) : f.to # lastOp.c /\ f.who = lastOp.c

\* The step recorded as op handled a command that fails validation: the
\* room id is missing, the issuer is not a member of the room named, or (for
\* send-chat-room-message) the content is empty.
ValidationRejected(op) ==
    \/ /\ op.op \in {"join-chat-room", "leave-chat-room", "send-chat-room-message",
                      "typing-start", "typing-stop"}
       /\ op.r = None
    \/ /\ op.op \in {"send-chat-room-message", "typing-start", "typing-stop"}
       /\ op.r # None
       /\ op.c \notin GetChatRoomParticipants(chatRooms, op.r)
    \/ /\ op.op = "send-chat-room-message"
       /\ ~op.ret

\* C13: a command rejected for a validation error leaves the registry, the
\* transports, the membership table and the pending cleanups unchanged,
\* hands nothing to the producer, puts nothing on the topic, and writes no
\* frame to a connection other than the issuer.
C13_RejectedChangesNothing ==
    [][ValidationRejected(lastOp') =>
          /\ UNCHANGED <<clients, conn, chatRooms, clientChatRooms, pendingCleanup,
                         inflight, bus>>
          /\ \A f \in Frames(sent') : f.to = lastOp'.c
      ]_vars

\* A send-chat-room-message for a room the live issuer has not joined was
\* answered with an error frame while another live connection is a member
\* of that room.
C13_Witness ==
    /\ lastOp.op = "send-chat-room-message"
    /\ lastOp.r \in RoomIds
    /\ lastOp.c \in Live(clients, conn)
    /\ lastOp.c \notin GetChatRoomParticipants(chatRooms, lastOp.r)
    /\ GetChatRoomParticipants(chatRooms, lastOp.r) \cap Live(clients, conn) # {}
    /\ CountSent(sent, lastOp.c, "error") = 1
    /\ inflight = {} /\ bus = {}

\* The registered connections and the members of room r that cannot be
\* written to: the transport is not OPEN or, for a member, the id is no
\* longer in the registry.
FailingClients(reg, cn) == reg \ Live(reg, cn)
FailingMembers(cr, reg, cn, r) == GetChatRoomParticipants(cr, r) \ Live(reg, cn)

C15_EmptiedRoomJoinable ==
    [][\A c \in Conns, r \in RoomIds :
        (/\ lastOp'.op = "join-chat-room"
         /\ lastOp'.c = c
         /\ lastOp'.r = r
         /\ c \in Live(clients, conn)
         /\ GetChatRoomParticipants(chatRooms, r) = {})
        => /\ lastOp'.ret
           /\ GetChatRoomParticipants(chatRooms', r) = {c}
           /\ InClientIndex(clientChatRooms', c, GetChatRoomKey(r))
           /\ CountSent(sent', c, "chat-room-joined") = 1
           /\ LET m == Msg("chat-room-message-received", r, None, {}, "hi") IN
              Deliver(m, c) \in BroadcastToChatRoom(chatRooms', clients', conn', r, m, None)
      ]_vars

\* A room was emptied by a leave whose cleanup has not run yet, and a live
\* connection has joined it again.
C15_Witness ==
    /\ lastOp.op = "join-chat-room"
    /\ lastOp.ret
    /\ lastOp.c \in Live(clients, conn)
    /\ pendingCleanup # <<>>
    /\ Head(pendingCleanup) = GetChatRoomKey(lastOp.r)
    /\ GetChatRoomParticipants(chatRooms, lastOp.r) = {lastOp.c}

\* C16: an unparseable frame from a connection whose transport is OPEN is
\* answered with exactly one error frame to that connection and with no
\* other frame; the transports, the registry and the membership table are
\* unchanged and nothing is published.
C16_UnparseableAnswered ==
    [][lastOp'.op = "unparseable" =>
          /\ IsOpen(conn, lastOp'.c) => CountSent(sent', lastOp'.c, "error") = 1
          /\ \A f \in Frames(sent') : f.to = lastOp'.c /\ f.type = "error"
          /\ UNCHANGED <<clients, conn, chatRooms, clientChatRooms, pendingCleanup,
                         inflight, bus>>
      ]_vars

\* A live member of a room sent an unparseable frame and was answered with
\* an error frame; it is still registered, open and a member.
C16_Witness ==
    /\ lastOp.op = "unparseable"
    /\ lastOp.c \in Live(clients, conn)
    /\ \E r \in RoomIds : lastOp.c \in GetChatRoomParticipants(chatRooms, r)
    /\ CountSent(sent, lastOp.c, "error") = 1

\* The step reported the failure of the publish of a send-chat-room-message.
IsRoomPublishFailure(op) == op.op = "publish-failed" /\ op.r # None

\* C17 as claimed: when the publish of a send-chat-room-message fails, the
\* originating connection is sent exactly one error frame, no other
\* connection is sent anything, and the message is neither handed to the
\* producer again nor put on the topic.
C17_AsClaimed ==
    [][IsRoomPublishFailure(lastOp') =>
          /\ CountSent(sent', lastOp'.c, "error") = 1
          /\ \A f \in Frames(sent') : f.to = lastOp'.c
          /\ \E m \in inflight :
                /\ m.kind = "room" /\ m.from = lastOp'.c /\ m.chatRoomId = lastOp'.r
                /\ inflight' = inflight \ {m}
          /\ bus' = bus
      ]_vars

\* C17: when the publish of a send-chat-room-message fails, the originating
\* connection is sent exactly one error frame if it is still registered with
\* an OPEN transport and nothing otherwise; no other connection is sent
\* anything; the message leaves the producer, nothing is handed to it again
\* and nothing is put on the topic.
C17_PublishFailureReported ==
    [][IsRoomPublishFailure(lastOp') =>
          /\ CountSent(sent', lastOp'.c, "error")
                = (IF lastOp'.c \in Live(clients, conn) THEN 1 ELSE 0)
          /\ \A f \in Frames(sent') : f.to = lastOp'.c /\ f.type = "error"
          /\ \E m \in inflight :
                /\ m.kind = "room" /\ m.from = lastOp'.c /\ m.chatRoomId = lastOp'.r
                /\ inflight' = inflight \ {m}
          /\ bus' = bus
          /\ UNCHANGED <<clients, conn, mgrVars>>
      ]_vars

\* The publish of a live member's message failed: it was sent the error
\* frame, and another live member of the room was sent nothing.
C17_Witness ==
    /\ IsRoomPublishFailure(lastOp)
    /\ lastOp.c \in Live(clients, conn)
    /\ CountSent(sent, lastOp.c, "error") = 1
    /\ \E d \in Live(clients, conn) \ {lastOp.c} :
          d \in GetChatRoomParticipants(chatRooms, lastOp.r)
    /\ bus = {}

\* C18 as claimed: every connection id in the participant set of a room is
\* in the connection registry.
C18_MembersRegistered ==
    \A k \in DOMAIN chatRooms : chatRooms[k].participants \subseteq clients

\* The room has an entry that an explicit creation wrote: its info carries
\* the name of the room-lifecycle event.
ExplicitlyCreated(cr, k) == k \in DOMAIN cr /\ cr[k].info.name # None

\* C19 as claimed: no step removes the entry of an explicitly created room
\* that has no members.
C19_ExplicitRoomPersists ==
    [][\A k \in DOMAIN chatRooms :
          (ExplicitlyCreated(chatRooms, k) /\ chatRooms[k].participants = {})
          => k \in DOMAIN chatRooms'
      ]_vars

\* C20: createChatRoom on a room whose entry exists changes nothing in the
\* table: the participant set and the stored info of that room, and every
\* other entry of both indexes, are as before.
C20_CreateExistingNoOp ==
    [][(/\ lastOp'.op = "createChatRoom"
        /\ GetChatRoomKey(lastOp'.r) \in DOMAIN chatRooms)
       => UNCHANGED <<chatRooms, clientChatRooms, pendingCleanup>>
      ]_vars

\* createChatRoom was called with a name for a room that has members and
\* whose stored info, written by its first creation, carries another name.
C20_Witness ==
    /\ lastOp.op = "createChatRoom"
    /\ GetChatRoomKey(lastOp.r) \in DOMAIN chatRooms
    /\ chatRooms[GetChatRoomKey(lastOp.r)].participants # {}
    /\ chatRooms[GetChatRoomKey(lastOp.r)].info.name \notin lastOp.val
    /\ lastOp.val \cap Names # {}

\* The state a consumed event could write besides the frames it sends.
ingressVars == <<clientChatRooms, pendingCleanup, clients, conn, inflight, consuming>>

IsFailedEvent(op) ==
    /\ op.op \in {"chat-message-event", "chat-room-event"}
    /\ (<<"kind", "malformed">> \in op.val \/ <<"kind", "throwing">> \in op.val)

\* C22: a payload that fails to decode, or whose handler throws, is dropped
\* with no effect and leaves the run loops of both topics delivering, so
\* the later events of either topic are still handled; and no other step
\* stops a run loop.
C22_ConsumptionContinues ==
    [][/\ consuming' = Topics
       /\ IsFailedEvent(lastOp') =>
             /\ Frames(sent') = {}
             /\ chatRooms' = chatRooms
             /\ UNCHANGED ingressVars
      ]_vars

\* A payload whose handler throws was consumed from the chat-message topic
\* while a live connection is a member of a room; both topics are still
\* being consumed.
C22_Witness ==
    /\ IsFailedEvent(lastOp)
    /\ lastOp.op = "chat-message-event"
    /\ <<"kind", "throwing">> \in lastOp.val
    /\ \E c \in Live(clients, conn) : c \in GetChatRoomParticipants(chatRooms, "r1")
    /\ consuming = Topics

\* C23 as claimed: a chat-message event for a room that carries its text
\* under `message` and nothing under `content` is delivered with that text.
C23_FirstPopulatedAlias ==
    [][(/\ lastOp'.op = "chat-message-event"
        /\ lastOp'.r # None
        /\ <<"kind", "json">> \in lastOp'.val
        /\ <<"message", "hi">> \in lastOp'.val
        /\ <<"content", None>> \in lastOp'.val)
       => \A f \in ChatFrames(sent') : f.text = "hi"
      ]_vars

\* C24: the reply to get-chat-rooms from a live connection is one
\* chat-room-list frame, sent to the issuer only, with one entry per room
\* in the membership table and no other entry; each entry carries the size
\* and the members of that room's participant set.  The command changes
\* nothing.
C24_RoomListExact ==
    [][(lastOp'.op = "get-chat-rooms" /\ lastOp'.c \in Live(clients, conn))
       => /\ CountSent(sent', lastOp'.c, "chat-room-list") = 1
          /\ \A f \in Frames(sent') :
                /\ f.to = lastOp'.c
                /\ f.type = "chat-room-list"
                /\ {GetChatRoomKey(e.chatRoomId) : e \in f.list} = DOMAIN chatRooms
                /\ Cardinality(f.list) = Cardinality(DOMAIN chatRooms)
                /\ \A e \in f.list :
                      /\ e.participants = GetChatRoomParticipants(chatRooms, e.chatRoomId)
                      /\ e.participantCount = Cardinality(e.participants)
          /\ UNCHANGED <<chatRooms, clientChatRooms, pendingCleanup, clients, conn,
                         inflight, bus, consuming>>
      ]_vars

\* With two members in r1 and no entry for r2 in the table, the reply to
\* get-chat-rooms listed r1 alone, with count 2.
C24_Witness ==
    /\ lastOp.op = "get-chat-rooms"
    /\ GetChatRoomParticipants(chatRooms, "r1") = TwoConns
    /\ GetChatRoomKey("r2") \notin DOMAIN chatRooms
    /\ \E f \in Frames(sent) :
          /\ f.type = "chat-room-list"
          /\ {<<e.chatRoomId, e.participantCount>> : e \in f.list} = {<<"r1", 2>>}

\* C25: every frame a step writes goes to a transport that is OPEN when it
\* is written, so a fan-out target that is not OPEN is sent nothing by that
\* step; a transport that has left OPEN never becomes OPEN again, so no
\* later step writes to it either; and the step puts nothing aside for it
\* (the producer and the topic hold no more than before a fan-out).
C25_NotOpenSkipped ==
    [][/\ \A f \in Frames(sent') : IsOpen(conn, f.to) \/ IsOpen(conn', f.to)
       /\ \A c \in Conns : conn[c] \notin {"IDLE", "OPEN"} => ~IsOpen(conn', c)
       /\ lastOp'.op \in {"chat-message-event", "chat-room-event", "connection",
                          "close", "error"}
             => inflight' = inflight /\ bus' \subseteq bus
      ]_vars

\* A chat-message event was fanned out to a room in which one registered
\* member's transport is no longer OPEN: that member was sent nothing and a
\* live member was sent the frame.
C25_Witness ==
    /\ lastOp.op = "chat-message-event"
    /\ lastOp.r \in RoomIds
    /\ \E t \in clients, u \in Live(clients, conn) :
          /\ {t, u} \subseteq GetChatRoomParticipants(chatRooms, lastOp.r)
          /\ conn[t] = "CLOSING_REMOTE"
          /\ CountSent(sent, t, "chat-room-message-received") = 0
          /\ CountSent(sent, u, "chat-room-message-received") = 1

\* C26: the step that accepts connection c writes, in this order, the
\* welcome frame carrying c to c alone, then the client-list, then the
\* client-connected notice; every other connection that is registered with
\* an OPEN transport is sent exactly one client-list, which holds the
\* registry with c in it, and exactly one client-connected naming c.
C26_WelcomeThenRoster ==
    [][lastOp'.op = "connection" =>
         LET c == lastOp'.c IN
         /\ Len(sent') = 3
         /\ sent'[1] = {Deliver(Msg("welcome", None, c, {}, None), c)}
         /\ \A f \in sent'[2] : f.type = "client-list" /\ f.list = clients' /\ c \in f.list
         /\ \A f \in sent'[3] : f.type = "client-connected" /\ f.who = c
         /\ \A d \in Live(clients, conn) \ {c} :
               /\ Cardinality({f \in sent'[2] : f.to = d}) = 1
               /\ Cardinality({f \in sent'[3] : f.to = d}) = 1
      ]_vars

\* The third connection was accepted while the first two are registered and
\* open: both were sent the client-list and the client-connected notice.
C26_Witness ==
    /\ lastOp.op = "connection"
    /\ lastOp.c = "C"
    /\ Live(clients, conn) = Conns
    /\ Len(sent) = 3
    /\ {f.to : f \in sent[2]} = Conns
    /\ {f.to : f \in sent[3]} = Conns

\* C27 as claimed: a step that changes the registry sends every connection
\* whose transport is still OPEN a client-list frame holding the new
\* registry.
C27_RosterFollowsRegistry ==
    [][clients' # clients =>
         \A d \in Conns :
            IsOpen(conn', d) =>
               \E f \in Frames(sent') :
                  f.to = d /\ f.type = "client-list" /\ f.list = clients'
      ]_vars

\* C28: handling the close (or error) event of a connection leaves its
\* outstanding publishes with the producer and the topic as it is; when a
\* publish of a closed connection completes its message is put on the
\* topic, and when it completes or fails no frame is written to the closed
\* connection; the event is then fanned out to the members of the room that
\* are registered and OPEN, the closed sender not among them.
C28_CloseKeepsPublish ==
    [][/\ lastOp'.op \in {"close", "error"} =>
             inflight' = inflight /\ bus' = bus
       /\ (lastOp'.op \in {"publish-ok", "publish-failed"} /\ Disconnected(lastOp'.c)) =>
             /\ \A f \in Frames(sent') : f.to # lastOp'.c
             /\ lastOp'.op = "publish-ok" =>
                   \E m \in inflight : m.from = lastOp'.c /\ bus' = bus \cup {m}
       /\ (lastOp'.op = "chat-message-event" /\ lastOp'.r # None
             /\ Disconnected(lastOp'.c)) =>
             /\ Received(sent', "chat-room-message-received")
                   = GetChatRoomParticipants(chatRooms, lastOp'.r) \cap Live(clients, conn)
             /\ lastOp'.c \notin Received(sent', "chat-room-message-received")
      ]_vars

\* The message of a connection that closed while its publish was
\* outstanding came back from the topic and was sent to a live member of
\* the room.
C28_Witness ==
    /\ lastOp.op = "chat-message-event"
    /\ lastOp.c \in Conns
    /\ conn[lastOp.c] = "CLOSED"
    /\ \E f \in ChatFrames(sent) :
          f.who = lastOp.c /\ f.to \in Live(clients, conn) /\ f.room = lastOp.r

\* The positions in the last step's sequence of sends at which connection
\* `to` was written a frame of the given type.
SentAt(s, to, type) ==
    {i \in 1..Len(s) : \E f \in s[i] : f.to = to /\ f.type = type}

\* A join-chat-room step that put the sender into the room.
JoinChangesMembership ==
    /\ lastOp'.op = "join-chat-room"
    /\ lastOp'.r # None
    /\ lastOp'.c \notin GetChatRoomParticipants(chatRooms, lastOp'.r)
    /\ lastOp'.c \in GetChatRoomParticipants(chatRooms', lastOp'.r)

\* C29 as claimed: on a join-chat-room that changes membership the joiner is
\* sent chat-room-joined and then chat-room-participants-online listing the
\* room's members, every other member of the room is sent exactly one
\* chat-room-participant-joined naming the joiner, and the joiner none.
C29_AsClaimed ==
    [][JoinChangesMembership =>
         LET c == lastOp'.c
             members == GetChatRoomParticipants(chatRooms', lastOp'.r)
         IN  /\ \E i \in SentAt(sent', c, "chat-room-joined") :
                   \E j \in SentAt(sent', c, "chat-room-participants-online") : i < j
             /\ \A f \in Frames(sent') :
                   (f.to = c /\ f.type = "chat-room-participants-online") => f.list = members
             /\ \A p \in members \ {c} :
                   /\ CountSent(sent', p, "chat-room-participant-joined") = 1
                   /\ \A f \in Frames(sent') :
                         (f.to = p /\ f.type = "chat-room-participant-joined") => f.who = c
             /\ CountSent(sent', c, "chat-room-participant-joined") = 0
      ]_vars

\* C29: on a join-chat-room that changes membership, a joiner that is
\* registered with an OPEN transport is sent exactly one chat-room-joined and
\* then exactly one chat-room-participants-online whose list is the room's
\* members including the joiner, and every other member that is registered
\* with an OPEN transport is sent exactly one chat-room-participant-joined
\* naming the joiner; the joiner, the members that are not registered or not
\* OPEN, and the connections outside the room are sent no
\* chat-room-participant-joined; when the joiner is not registered the step
\* sends no frame at all.
C29_JoinNotices ==
    [][JoinChangesMembership =>
         LET c == lastOp'.c
             members == GetChatRoomParticipants(chatRooms', lastOp'.r)
             own == IF c \in Live(clients, conn) THEN 1 ELSE 0
         IN  /\ CountSent(sent', c, "chat-room-joined") = own
             /\ CountSent(sent', c, "chat-room-participants-online") = own
             /\ c \in Live(clients, conn) =>
                   \E i \in SentAt(sent', c, "chat-room-joined") :
                     \E j \in SentAt(sent', c, "chat-room-participants-online") : i < j
             /\ c \in members
             /\ \A f \in Frames(sent') :
                   (f.to = c /\ f.type = "chat-room-participants-online") =>
                      f.list = members /\ f.room = lastOp'.r
             /\ \A p \in Conns :
                   CountSent(sent', p, "chat-room-participant-joined")
                     = IF c \in clients /\ p \in (members \ {c}) \cap Live(clients, conn)
                       THEN 1 ELSE 0
             /\ \A f \in Frames(sent') :
                   f.type = "chat-room-participant-joined" => f.who = c /\ f.room = lastOp'.r
             /\ c \notin clients => Frames(sent') = {}
      ]_vars

\* A live connection has joined a room that already had a live member, who
\* was told, and the joiner was sent the list with both of them.
C29_Witness ==
    /\ lastOp.op = "join-chat-room"
    /\ lastOp.ret
    /\ lastOp.c \in Live(clients, conn)
    /\ \E f \in Frames(sent) :
          /\ f.type = "chat-room-participant-joined"
          /\ f.who = lastOp.c
          /\ f.to \in Live(clients, conn) \ {lastOp.c}
    /\ \E f \in Frames(sent) :
          /\ f.type = "chat-room-participants-online"
          /\ f.to = lastOp.c
          /\ Cardinality(f.list) = 2

\* A leave-chat-room step for a named room.
LeaveStep == lastOp'.op = "leave-chat-room" /\ lastOp'.r # None

\* C30 as claimed: on leave-chat-room for room R by connection c each
\* remaining member of R is sent exactly one chat-room-participant-left
\* naming c iff c was a member of R before the command, c is sent
\* chat-room-left and no chat-room-participant-left, and no other connection
\* outside R is sent anything.
C30_AsClaimed ==
    [][LeaveStep =>
         LET c == lastOp'.c
             wasMember == c \in GetChatRoomParticipants(chatRooms, lastOp'.r)
             remaining == GetChatRoomParticipants(chatRooms', lastOp'.r)
         IN  /\ \A p \in remaining :
                   CountSent(sent', p, "chat-room-participant-left")
                     = IF wasMember THEN 1 ELSE 0
             /\ CountSent(sent', c, "chat-room-left") = 1
             /\ CountSent(sent', c, "chat-room-participant-left") = 0
             /\ \A f \in Frames(sent') : f.to \in remaining \cup {c}
      ]_vars

\* C30: on leave-chat-room for room R by connection c, each remaining
\* member of R that is registered with an OPEN transport is sent exactly one
\* chat-room-participant-left naming c iff c was a member of R before the
\* command; c is sent exactly one chat-room-left when it is registered with
\* an OPEN transport and never a chat-room-participant-left; the remaining
\* members that are not registered or not OPEN and the connections outside
\* R are sent nothing.
C30_LeaveNotices ==
    [][LeaveStep =>
         LET c == lastOp'.c
             wasMember == c \in GetChatRoomParticipants(chatRooms, lastOp'.r)
             remaining == GetChatRoomParticipants(chatRooms', lastOp'.r)
         IN  /\ c \notin remaining
             /\ \A p \in Conns :
                   CountSent(sent', p, "chat-room-participant-left")
                     = IF wasMember /\ p \in remaining \cap Live(clients, conn)
                       THEN 1 ELSE 0
             /\ \A f \in Frames(sent') :
                   f.type = "chat-room-participant-left" => f.who = c /\ f.room = lastOp'.r
             /\ CountSent(sent', c, "chat-room-left")
                   = IF c \in Live(clients, conn) THEN 1 ELSE 0
             /\ \A f \in Frames(sent') :
                   \/ f.to = c /\ f.type = "chat-room-left"
                   \/ f.to \in remaining /\ f.type = "chat-room-participant-left"
      ]_vars

\* A live member has left a room in which a live member remains, who was
\* told.
C30_Witness ==
    /\ lastOp.op = "leave-chat-room"
    /\ lastOp.ret
    /\ lastOp.c \in Live(clients, conn)
    /\ \E f \in Frames(sent) :
          /\ f.type = "chat-room-participant-left"
          /\ f.who = lastOp.c
          /\ f.to \in Live(clients, conn) \ {lastOp.c}
    /\ \E f \in Frames(sent) : f.type = "chat-room-left" /\ f.to = lastOp.c

\* A connection that a kick command removed from the registry and whose
\* transport it closed; the close event has not been handled yet.
Kicked(c) == conn[c] = "CLOSING_LOCAL" /\ c \notin clients

InSomeRoom(c) == \E r \in RoomIds : c \in GetChatRoomParticipants(chatRooms, r)

\* C31: a kicked connection is eventually, once its close event is handled,
\* in no room's participant set, and stays so; the kick step itself writes
\* it nothing but the kicked notice, and no later step writes it a frame.
C31_KickedLeavesAndIsSilent ==
    /\ \A c \in Conns : Kicked(c) ~> [](conn[c] = "CLOSED" /\ ~InSomeRoom(c))
    /\ [][\A c \in Conns :
            /\ (lastOp'.op \in {"kick-one", "kick-all"} /\ conn[c] = "OPEN" /\ Kicked(c)') =>
                  \A f \in Frames(sent') : f.to = c => f.type = "kicked"
            /\ Kicked(c) => \A f \in Frames(sent') : f.to # c
        ]_vars

\* A chat event is fanned out to a room one of whose members has been
\* kicked and not yet closed: the live member is sent the frame.
C31_Witness ==
    /\ lastOp.op = "chat-message-event"
    /\ \E c \in Conns :
          /\ Kicked(c)
          /\ c \in GetChatRoomParticipants(chatRooms, lastOp.r)
    /\ \E f \in ChatFrames(sent) : f.to \in Live(clients, conn)

\* C32: when a send-chat-room-message frame arriving on connection c starts
\* a publish, the one message handed to the producer has c as its sender and
\* as the key of its record and the frame's chatRoomId as its room, whatever
\* sender the frame itself names, and c was a member of that room; a publish
\* that completes puts that same message on the topic.
C32_PublishedAsIssuer ==
    [][/\ (lastOp'.op = "send-chat-room-message" /\ inflight' # inflight) =>
            \A c \in TwoConns, frame \in SendFrames :
               HandleMessage(c, frame) =>
               /\ frame.chatRoomId # None
               /\ IsClientInRoom(chatRooms, c, frame.chatRoomId)
               /\ \E m \in inflight' \ inflight :
                     /\ inflight' = inflight \cup {m}
                     /\ m.from = c
                     /\ ProducerRecord(m).key = c
                     /\ ProducerRecord(m).value.chatRoomId = frame.chatRoomId
                     /\ m.message = FrameText(frame)
       /\ lastOp'.op = "publish-ok" =>
            \E m \in inflight :
               m.from = lastOp'.c /\ m.chatRoomId = lastOp'.r /\ bus' = bus \cup {m}
      ]_vars

\* A member's room message is with the producer while another connection is
\* open and registered, whose id the frame could have named as its sender.
C32_Witness ==
    /\ lastOp.op = "send-chat-room-message"
    /\ lastOp.ret
    /\ \E m \in inflight :
          m.kind = "room" /\ m.from = lastOp.c /\ m.chatRoomId = lastOp.r
    /\ IsClientInRoom(chatRooms, lastOp.c, lastOp.r)
    /\ Live(clients, conn) \ {lastOp.c} # {}

\* leaveChatRoom has just removed the last member of room r.
LeftEmpty(r) ==
    /\ lastOp.op = "leaveChatRoom"
    /\ lastOp.r = r
    /\ lastOp.ret
    /\ GetChatRoomKey(r) \in DOMAIN chatRooms
    /\ chatRooms[GetChatRoomKey(r)].participants = {}

\* C33: once leaveChatRoom has left a room with no member, the room is
\* eventually deleted from the table unless a connection joins it first;
\* the deferred cleanup step removes exactly the rooms that are empty when it
\* runs, and the number of rooms drops by their number.
C33_EmptiedRoomDeleted ==
    /\ \A r \in RoomIds :
          LeftEmpty(r) ~>
             (\/ GetChatRoomKey(r) \notin DOMAIN chatRooms
              \/ GetChatRoomParticipants(chatRooms, r) # {})
    /\ [][lastOp'.op = "cleanupEmptyRooms" =>
            /\ DOMAIN chatRooms' = DOMAIN chatRooms \ EmptyRooms(chatRooms)
            /\ Cardinality(DOMAIN chatRooms')
                 = Cardinality(DOMAIN chatRooms) - Cardinality(EmptyRooms(chatRooms))
        ]_vars

\* The cleanup queued by the leave that emptied a room has run and the room
\* is gone, while a room with a member is still in the table.
C33_Witness ==
    /\ lastOp.op = "cleanupEmptyRooms"
    /\ lastOp.r \in RoomKeys
    /\ lastOp.r \notin DOMAIN chatRooms
    /\ pendingCleanup = <<>>
    /\ \E k \in DOMAIN chatRooms : chatRooms[k].participants # {}

\* C34: a join-chat-room from a connection that is already a member of the
\* room changes neither the membership table, the registry, the transports,
\* the queued cleanups nor the publishes, and writes no frame to anyone.
C34_RejoinIsSilent ==
    [][(/\ lastOp'.op = "join-chat-room"
        /\ lastOp'.r # None
        /\ lastOp'.c \in GetChatRoomParticipants(chatRooms, lastOp'.r)) =>
          /\ UNCHANGED <<mgrVars, clients, conn, inflight, bus, consuming>>
          /\ Frames(sent') = {}
          /\ ~lastOp'.ret
      ]_vars

\* A live member of a room with another live member has sent join-chat-room
\* for that room again.
C34_Witness ==
    /\ lastOp.op = "join-chat-room"
    /\ ~lastOp.ret
    /\ lastOp.r # None
    /\ lastOp.c \in Live(clients, conn)
    /\ lastOp.c \in GetChatRoomParticipants(chatRooms, lastOp.r)
    /\ (GetChatRoomParticipants(chatRooms, lastOp.r) \cap Live(clients, conn)) \ {lastOp.c} # {}
    /\ sent = <<>>

\* C35: handling the close event of a connection whose error event has been
\* handled changes neither the registry nor the membership table; and in
\* every state, running the state changes of the disconnect handler twice
\* for a connection gives the registry and the membership table that running
\* them once gives.
C35_DisconnectIdempotent ==
    [][/\ (lastOp'.op = "close" /\ conn[lastOp'.c] = "ERRORED") =>
             UNCHANGED <<clients, chatRooms, clientChatRooms>>
       /\ \A c \in Conns :
             LET once == LeaveAllChatRooms(chatRooms, clientChatRooms, c)
                 twice == LeaveAllChatRooms(once.chatRooms, once.clientChatRooms, c)
             IN  /\ twice.chatRooms = once.chatRooms
                 /\ twice.clientChatRooms = once.clientChatRooms
                 /\ (clients \ {c}) \ {c} = clients \ {c}
      ]_vars

\* The error event of a connection that was in a room has been handled and
\* its close event is still to come, while the table holds an empty room
\* and a room with another member.
C35_Witness ==
    /\ lastOp.op = "error"
    /\ conn[lastOp.c] = "ERRORED"
    /\ lastOp.c \notin clients
    /\ ~InSomeRoom(lastOp.c)
    /\ \E k \in DOMAIN chatRooms : chatRooms[k].participants = {}
    /\ \E k \in DOMAIN chatRooms : chatRooms[k].participants # {}

\* C36: a frame whose type is none of the client commands, arriving on a
\* connection that is registered with an OPEN transport, is answered with
\* exactly one error frame to that connection and no frame to any other;
\* the registry, the membership table, the publishes and every transport,
\* the sender's included, stay as they are.
C36_UnknownAnswered ==
    [][(lastOp'.op = "unknown" /\ lastOp'.c \in Live(clients, conn)) =>
          /\ \E frame \in UnknownFrames : HandleMessage(lastOp'.c, frame)
          /\ CountSent(sent', lastOp'.c, "error") = 1
          /\ \A f \in Frames(sent') : f.to = lastOp'.c /\ f.type = "error"
          /\ UNCHANGED <<mgrVars, clients, conn, inflight, bus>>
          /\ IsOpen(conn', lastOp'.c)
      ]_vars

\* A member of a room has sent a frame of an unknown type and has been sent
\* the error; it is still registered, open and in the room.
C36_Witness ==
    /\ lastOp.op = "unknown"
    /\ lastOp.c \in Live(clients, conn)
    /\ InSomeRoom(lastOp.c)
    /\ \E f \in Frames(sent) : f.to = lastOp.c /\ f.type = "error"

\* C37: broadcast-one naming target T writes exactly one direct frame, to T
\* and carrying the sender's id, when T is registered with an OPEN
\* transport, and no frame to any other connection; when T is not
\* registered or not OPEN it writes no frame at all, the sender getting no
\* error; in both cases no state changes.
C37_DirectToTargetOnly ==
    [][lastOp'.op = "broadcast-one" =>
          LET T == lastOp'.r IN
          /\ \E frame \in DirectFrames : HandleMessage(lastOp'.c, frame)
          /\ UNCHANGED <<mgrVars, clients, conn, inflight, bus>>
          /\ IF T \in Live(clients, conn)
             THEN /\ CountSent(sent', T, "direct") = 1
                  /\ \A f \in Frames(sent') :
                        f.to = T /\ f.type = "direct" /\ f.who = lastOp'.c
             ELSE Frames(sent') = {}
      ]_vars

\* A connection has sent broadcast-one naming another connection that is
\* registered and open, which was sent the direct frame.
C37_Witness ==
    /\ lastOp.op = "broadcast-one"
    /\ lastOp.r \in Live(clients, conn) \ {lastOp.c}
    /\ \E f \in Frames(sent) : f.to = lastOp.r /\ f.type = "direct" /\ f.who = lastOp.c

\* The (connection, room) pairs of the membership table.
MembershipPairs ==
    {p \in Conns \X DOMAIN chatRooms : p[1] \in chatRooms[p[2]].participants}

\* C38: the client index has no entry whose room set is empty;
\* getTotalParticipants() is the number of connections that are in at least
\* one room, and getStats() reports that number as totalClients and the
\* number of (connection, room) membership pairs as totalMemberships.
C38_StatsCountMemberships ==
    /\ \A c \in DOMAIN clientChatRooms : clientChatRooms[c] # {}
    /\ GetTotalParticipants(clientChatRooms)
         = Cardinality({p[1] : p \in MembershipPairs})
    /\ GetStats(chatRooms, clientChatRooms).totalClients
         = Cardinality({p[1] : p \in MembershipPairs})
    /\ GetStats(chatRooms, clientChatRooms).totalMemberships
         = Cardinality(MembershipPairs)
    /\ GetTotalParticipantMemberships(chatRooms) = Cardinality(MembershipPairs)

\* A connection has left its last room and has no entry in the client index
\* any more, while other connections hold more memberships than there are
\* connections with one.
C38_Witness ==
    /\ lastOp.op = "leaveChatRoom"
    /\ lastOp.ret
    /\ lastOp.c \notin DOMAIN clientChatRooms
    /\ GetTotalParticipants(clientChatRooms) >= 1
    /\ GetStats(chatRooms, clientChatRooms).totalMemberships
         > GetTotalParticipants(clientChatRooms)

===========================================================================
